---- MODULE Spec2Model ----
(***************************************************************************)
(* Model of the JNI bridge of packages/apps/Bluetooth: the UUID codec      *)
(* (set_uuid / uuid_lsb / uuid_msb), the device-address codec              *)
(* (bd_addr_str_to_addr / jstr2bdaddr / bdaddr2newjstr) with the GATT      *)
(* entry points and callbacks that use them, ScopedBtAddr, and the A2DP,    *)
(* AVRCP-controller and GATT profile bridges (initNative / cleanupNative,  *)
(* stack callbacks, commands, GATT writes and scan filters, the AVRCP      *)
(* player-setting and folder-item callbacks, and initNative and            *)
(* cleanupNative interleaved with callbacks).                              *)
(*                                                                         *)
(* TLC's integers are 32 bits wide, so a 64-bit word (jlong, uint64_t) is  *)
(* a little-endian tuple of four 16-bit limbs, indexed 1..4; shifts and    *)
(* bitwise operations are computed on the limbs.  Characters are their     *)
(* ASCII codes.                                                            *)
(***************************************************************************)
EXTENDS Integers, Sequences, FiniteSets, TLC

VARIABLES
    \* ---- the GATT interface pointer (com_android_bluetooth_gatt.cpp:199)
    sGattIf,
    \* ---- UUID marshalling
    uuidPc,      \* where the UUID currently is on its way across the boundary
    uuidArg,     \* the (msb, lsb) the managed layer holds
    uuidStack,   \* the bt_uuid_t the native stack holds (16 bytes, 0..15)
    uuidUp,      \* the (msb, lsb) delivered to the managed layer by an upcall
    uuidBack,    \* the bt_uuid_t the stack receives back from the managed layer
    uuidJ,       \* the jlong arguments by position: of the native method called,
                 \* and of the upcall made
    \* ---- address marshalling
    addrPc,      \* where the address currently is
    addrText,    \* the address text the managed layer holds (chars, 1..Len)
    addrEntry,   \* the entry point the managed layer calls with addrText
    origBda,     \* the bt_bdaddr_t the native stack reported first (<<>> if none)
    stackBda,    \* the bt_bdaddr_t the native stack was called with
    parseRan,    \* TRUE iff bd_addr_str_to_addr ran in the last entry point
    upText,      \* the address text delivered to the managed layer by an upcall
    nRead,       \* number of characters bd_addr_str_to_addr read in the last call
    utfLive,     \* GetStringUTFChars results not yet released
    \* ---- ScopedBtAddr
    objState,    \* "raw" (storage, not yet constructed) | "alive" | "destroyed"
    mAddr,       \* the jbyteArray handle held (0 = nullptr)
    arrays,      \* handle -> content, for every array NewByteArray has returned
    newCalls,    \* number of NewByteArray calls so far
    released,    \* sequence of handles passed to DeleteLocalRef
    written,     \* sequence of handles passed to SetByteArrayRegion
    lastGet,     \* what the last get() returned (-1 before any get())
    ops,         \* history of the calls made on the object
    \* ---- the profile bridges
    a2dp,        \* statics of com_android_bluetooth_a2dp.cpp
    avrcp,       \* statics of com_android_bluetooth_avrcp_controller.cpp
    gatt,        \* statics of com_android_bluetooth_gatt.cpp other than sGattIf
    globalRefs,  \* JNI global references: number made, and the live ones
    last,        \* the last native method or stack callback that ran
    stack,       \* the native stack's side of each profile interface
    threads      \* the service thread inside initNative / cleanupNative, and
                 \* the callback thread inside a callback

uuidVars == <<uuidPc, uuidArg, uuidStack, uuidUp, uuidBack, uuidJ>>
addrVars == <<addrPc, addrText, addrEntry, origBda, stackBda, parseRan, upText, nRead, utfLive>>
scopedVars == <<objState, mAddr, arrays, newCalls, released, written, lastGet, ops>>
bridgeVars == <<a2dp, avrcp, gatt, globalRefs, last, stack, threads>>
vars == <<sGattIf, uuidVars, addrVars, scopedVars, bridgeVars>>

(***************************************************************************)
(* Machine arithmetic.                                                     *)
(***************************************************************************)

\* x | y on w-bit non-negative values.
RECURSIVE BitOr(_, _, _)
BitOr(x, y, w) ==
    IF w = 0 THEN 0
    ELSE (IF x % 2 = 1 \/ y % 2 = 1 THEN 1 ELSE 0) + 2 * BitOr(x \div 2, y \div 2, w - 1)

\* Conversion of an int to uint8_t.
U8(x) == x % 256

ZeroWord == <<0, 0, 0, 0>>

\* The sign bit of a jlong.
Negative(w) == w[4] >= 32768

\* w >> 8 on a jlong: the arithmetic shift the Android toolchains produce
\* (the vacated top byte is filled with the sign).
Sar8(w) ==
    << (w[1] \div 256) + (w[2] % 256) * 256,
       (w[2] \div 256) + (w[3] % 256) * 256,
       (w[3] \div 256) + (w[4] % 256) * 256,
       (w[4] \div 256) + (IF Negative(w) THEN 65280 ELSE 0) >>

\* w >> n on a jlong, for the shift counts the code uses (multiples of 8).
RECURSIVE Sar(_, _)
Sar(w, n) == IF n = 0 THEN w ELSE Sar(Sar8(w), n - 8)

\* (w & 0xFF), as stored into a uint8_t.
LowByte(w) == U8(w[1] % 256)

\* w << 8 on a uint64_t: the top byte is shifted out.
Shl8(w) ==
    << (w[1] % 256) * 256,
       (w[2] % 256) * 256 + (w[1] \div 256),
       (w[3] % 256) * 256 + (w[2] \div 256),
       (w[4] % 256) * 256 + (w[3] \div 256) >>

\* w | b on a uint64_t, b a uint8_t.
OrByte(w, b) == [w EXCEPT ![1] = BitOr(w[1], b, 16)]

(***************************************************************************)
(* The UUID codec.                                                         *)
(***************************************************************************)

\* A bt_uuid_t on the stack before it is written: every byte unset (-1).
UnsetUuid == [i \in 0..15 |-> -1]

\* The loop of set_uuid, from index i on.
RECURSIVE set_uuid_loop(_, _, _, _)
set_uuid_loop(uuid, uuid_msb_, uuid_lsb_, i) ==
    IF i = 8 THEN uuid
    ELSE set_uuid_loop(
            [uuid EXCEPT ![i]     = LowByte(Sar(uuid_lsb_, 8 * i)),
                         ![i + 8] = LowByte(Sar(uuid_msb_, 8 * i))],
            uuid_msb_, uuid_lsb_, i + 1)

\* A plausible slip: the two halves land in each other's region.
set_uuid_swapped(uuid, uuid_msb_, uuid_lsb_) ==
    set_uuid_loop(uuid, uuid_lsb_, uuid_msb_, 0)

\* A plausible slip: the loop stops one byte early.
RECURSIVE set_uuid_short_loop(_, _, _, _)
set_uuid_short_loop(uuid, uuid_msb_, uuid_lsb_, i) ==
    IF i = 7 THEN uuid
    ELSE set_uuid_short_loop(
            [uuid EXCEPT ![i]     = LowByte(Sar(uuid_lsb_, 8 * i)),
                         ![i + 8] = LowByte(Sar(uuid_msb_, 8 * i))],
            uuid_msb_, uuid_lsb_, i + 1)

set_uuid_short(uuid, uuid_msb_, uuid_lsb_) ==
    set_uuid_short_loop(uuid, uuid_msb_, uuid_lsb_, 0)

\* set_uuid(uuid, uuid_msb, uuid_lsb): the buffer after the call.
set_uuid(uuid, uuid_msb_, uuid_lsb_) ==
    set_uuid_loop(uuid, uuid_msb_, uuid_lsb_, 0)

\* The loop shared by uuid_lsb and uuid_msb: for (i = from; i >= to; i--).
RECURSIVE uuid_half_loop(_, _, _, _)
uuid_half_loop(uu, i, to, acc) ==
    IF i < to THEN acc
    ELSE uuid_half_loop(uu, i - 1, to, OrByte(Shl8(acc), uu[i]))

\* A plausible slip: the bytes are accumulated in ascending order.
RECURSIVE uuid_half_loop_up(_, _, _, _)
uuid_half_loop_up(uu, i, to, acc) ==
    IF i > to THEN acc
    ELSE uuid_half_loop_up(uu, i + 1, to, OrByte(Shl8(acc), uu[i]))

uuid_lsb_bigendian(uu) == uuid_half_loop_up(uu, 0, 7, ZeroWord)

uuid_lsb(uu) == uuid_half_loop(uu, 7, 0, ZeroWord)

uuid_msb(uu) == uuid_half_loop(uu, 15, 8, ZeroWord)

\* UUID_PARAMS(uuid_ptr): the two arguments, in the order the macro gives them.
UUID_PARAMS(uu) == [lsb |-> uuid_lsb(uu), msb |-> uuid_msb(uu)]

\* A plausible slip: the macro expands to the msb first.
UUID_PARAMS_list_msb_first(uu) == <<uuid_msb(uu), uuid_lsb(uu)>>

\* UUID_PARAMS(uuid_ptr) as the list of arguments it expands to.
UUID_PARAMS_list(uu) == <<uuid_lsb(uu), uuid_msb(uu)>>

(***************************************************************************)
(* The device-address codec.                                               *)
(***************************************************************************)

BD_ADDR_LEN == 6

\* A bt_bdaddr_t on the stack before it is written: every byte unset (-1).
UnsetBda == [i \in 0..(BD_ADDR_LEN - 1) |-> -1]

\* *str at offset k of a NUL-terminated string: the characters, the
\* terminator, and past it whatever the memory holds (g).
CharAt(str, g, k) ==
    IF k < Len(str) THEN str[k + 1] ELSE IF k = Len(str) THEN 0 ELSE g

\* A plausible slip: the lower-case branch is missing.
HexNibbleUpperOnly(c) ==
    IF c >= 48 /\ c <= 57 THEN c - 48 ELSE c - 65 + 10

\* The three-way branch of bd_addr_str_to_addr on a character: the value it
\* assigns or ors in, before conversion to uint8_t.
HexNibble(c) ==
    IF c >= 48 /\ c <= 57 THEN c - 48
    ELSE IF c >= 97 /\ c <= 122 THEN c - 97 + 10
    ELSE c - 65 + 10

\* The loop of bd_addr_str_to_addr from iteration i on: p is the offset str
\* points at, c the character last read.  Yields the bytes and the number of
\* characters read.
RECURSIVE bd_addr_loop(_, _, _, _, _, _)
bd_addr_loop(str, g, i, p, c, bd_addr) ==
    IF i >= BD_ADDR_LEN THEN [bd_addr |-> bd_addr, nread |-> p]
    ELSE LET hi == U8(HexNibble(c))
             c2 == CharAt(str, g, p)
             two == c2 # 58
             byte == IF two THEN BitOr(U8(hi * 16), U8(HexNibble(c2)), 8) ELSE hi
             p3 == IF two THEN p + 2 ELSE p + 1
             c4 == CharAt(str, g, p3)
         IN  bd_addr_loop(str, g, i + 1, p3 + 1, c4, [bd_addr EXCEPT ![i] = byte])

\* A plausible slip: the high nibble is not shifted before the low one is ored in.
RECURSIVE bd_addr_loop_noshift(_, _, _, _, _, _)
bd_addr_loop_noshift(str, g, i, p, c, bd_addr) ==
    IF i >= BD_ADDR_LEN THEN [bd_addr |-> bd_addr, nread |-> p]
    ELSE LET hi == U8(HexNibble(c))
             c2 == CharAt(str, g, p)
             two == c2 # 58
             byte == IF two THEN BitOr(hi, U8(HexNibble(c2)), 8) ELSE hi
             p3 == IF two THEN p + 2 ELSE p + 1
             c4 == CharAt(str, g, p3)
         IN  bd_addr_loop_noshift(str, g, i + 1, p3 + 1, c4,
                                  [bd_addr EXCEPT ![i] = byte])

bd_addr_str_to_addr_noshift(str, g, bd_addr) ==
    bd_addr_loop_noshift(str, g, 0, 1, CharAt(str, g, 0), bd_addr)

\* bd_addr_str_to_addr(str, bd_addr): c = *str++ and the loop.
bd_addr_str_to_addr(str, g, bd_addr) ==
    bd_addr_loop(str, g, 0, 1, CharAt(str, g, 0), bd_addr)

\* A plausible slip: the length check is missing.
jstr2bdaddr_unchecked(bda, address, utfOk, g) ==
    IF utfOk
    THEN LET r == bd_addr_str_to_addr(address, g, bda)
         IN  [bda |-> r.bd_addr, ran |-> TRUE, nread |-> r.nread, leaked |-> 0]
    ELSE [bda |-> bda, ran |-> FALSE, nread |-> 0, leaked |-> 0]

\* A plausible variant: a text whose separators are not colons is refused.
jstr2bdaddr_strict(bda, address, utfOk, g) ==
    IF utfOk /\ Len(address) = 17 /\ \A j \in {3, 6, 9, 12, 15} : address[j] = 58
    THEN LET r == bd_addr_str_to_addr(address, g, bda)
         IN  [bda |-> r.bd_addr, ran |-> TRUE, nread |-> r.nread, leaked |-> 0]
    ELSE [bda |-> bda, ran |-> FALSE, nread |-> 0,
          leaked |-> IF utfOk THEN 1 ELSE 0]

\* jstr2bdaddr(env, bda, address): utfOk says whether GetStringUTFChars
\* returned a string.  The characters are released only on the parsing path.
jstr2bdaddr(bda, address, utfOk, g) ==
    IF utfOk /\ Len(address) = 17
    THEN LET r == bd_addr_str_to_addr(address, g, bda)
         IN  [bda |-> r.bd_addr, ran |-> TRUE, nread |-> r.nread, leaked |-> 0]
    ELSE [bda |-> bda, ran |-> FALSE, nread |-> 0,
          leaked |-> IF utfOk THEN 1 ELSE 0]

\* One "%02X" conversion: two upper-case hexadecimal digits.
Fmt02X(b) ==
    LET digit(n) == IF n < 10 THEN 48 + n ELSE 65 + (n - 10)
    IN  <<digit(b \div 16), digit(b % 16)>>

\* "%02x": lower-case digits.
Fmt02x(b) ==
    LET digit(n) == IF n < 10 THEN 48 + n ELSE 97 + (n - 10)
    IN  <<digit(b \div 16), digit(b % 16)>>

\* "%X": no zero padding.
FmtX(b) ==
    LET digit(n) == IF n < 10 THEN 48 + n ELSE 65 + (n - 10)
    IN  IF b < 16 THEN <<digit(b)>> ELSE <<digit(b \div 16), digit(b % 16)>>

\* A plausible slip: "%02x" in the format string.
bdaddr2newjstr_lower(bda) ==
    Fmt02x(bda[0]) \o <<58>> \o Fmt02x(bda[1]) \o <<58>> \o Fmt02x(bda[2]) \o <<58>>
    \o Fmt02x(bda[3]) \o <<58>> \o Fmt02x(bda[4]) \o <<58>> \o Fmt02x(bda[5])

\* A plausible slip: "%X" in the format string.
bdaddr2newjstr_nopad(bda) ==
    FmtX(bda[0]) \o <<58>> \o FmtX(bda[1]) \o <<58>> \o FmtX(bda[2]) \o <<58>>
    \o FmtX(bda[3]) \o <<58>> \o FmtX(bda[4]) \o <<58>> \o FmtX(bda[5])

\* bdaddr2newjstr(env, bda): snprintf of "%02X:%02X:%02X:%02X:%02X:%02X" into
\* c_address[32]; the characters of the new string.
bdaddr2newjstr(bda) ==
    Fmt02X(bda[0]) \o <<58>> \o Fmt02X(bda[1]) \o <<58>> \o Fmt02X(bda[2]) \o <<58>>
    \o Fmt02X(bda[3]) \o <<58>> \o Fmt02X(bda[4]) \o <<58>> \o Fmt02X(bda[5])

(***************************************************************************)
(* Inputs of the UUID codec.                                               *)
(***************************************************************************)

\* Number of 64-bit sample values each UUID half is drawn from.
MaxWordSample == 8

\* Number of generated 16-byte sample buffers.
MaxUuidBuf == 6

\* 64-bit values, as limbs, least significant first: 0, 0x1000 and
\* 0x0080000800000010 (the example of the specification), the Bluetooth base
\* UUID's halves, -1, the most negative jlong, values with every byte distinct.
SampleWords ==
    << <<0, 0, 0, 0>>,
       <<4096, 0, 0, 0>>,
       <<16, 0, 8, 128>>,
       <<13563, 24475, 128, 32768>>,
       <<65535, 65535, 65535, 65535>>,
       <<0, 0, 0, 32768>>,
       <<52719, 35243, 17767, 291>>,
       <<12816, 30292, 47768, 65244>>,
       <<255, 65280, 255, 65280>>,
       <<1, 0, 0, 0>>,
       <<32896, 32896, 32896, 32896>> >>

WordInputs ==
    {SampleWords[n] : n \in 1..(IF MaxWordSample < Len(SampleWords)
                                        THEN MaxWordSample ELSE Len(SampleWords))}

\* Buffers the native stack may hold: generated byte patterns, and buffers with
\* a single byte set.
UuidBuf(n) == [i \in 0..15 |-> (n * 37 + i * (16 * n + 3)) % 256]

UuidInputs ==
    {UuidBuf(n) : n \in 0..MaxUuidBuf}
    \cup {[i \in 0..15 |-> IF i = j THEN v ELSE 0] : j \in 0..15, v \in {1, 128, 255}}

NoWords == [lsb |-> ZeroWord, msb |-> ZeroWord]
NoUuid == [i \in 0..15 |-> 0]
NoJlongs == [native |-> <<>>, upcall |-> <<>>]

(***************************************************************************)
(* The UUID on its way across the boundary.                                *)
(***************************************************************************)

\* gattClientRegisterAppNative(env, object, app_uuid_lsb, app_uuid_msb)
gattClientRegisterAppNative ==
    /\ uuidPc = "java_register"
    /\ IF ~sGattIf
       THEN uuidPc' = "returned" /\ UNCHANGED uuidStack
       ELSE /\ uuidStack' = set_uuid(UnsetUuid, uuidArg.msb, uuidArg.lsb)
            /\ uuidPc' = "register_client"
    /\ UNCHANGED <<sGattIf, bridgeVars, uuidArg, uuidUp, uuidBack, uuidJ, addrVars, scopedVars>>

\* btgattc_register_app_cb(status, clientIf, app_uuid): the stack echoes the
\* UUID it was given; threadOk is the result of checkCallbackThread().
btgattc_register_app_cb ==
    /\ uuidPc = "register_client"
    /\ \E threadOk \in BOOLEAN :
          IF ~threadOk
          THEN uuidPc' = "callback_dropped" /\ UNCHANGED <<uuidUp, uuidJ>>
          ELSE /\ uuidUp' = UUID_PARAMS(uuidStack)
               /\ uuidJ' = [uuidJ EXCEPT !.upcall = UUID_PARAMS_list(uuidStack)]
               /\ uuidPc' = "onClientRegistered"
    /\ UNCHANGED <<sGattIf, bridgeVars, uuidArg, uuidStack, uuidBack, addrVars, scopedVars>>

\* gattServerRegisterAppNative(env, object, app_uuid_lsb, app_uuid_msb) and
\* registerAdvertiserNative(env, object, app_uuid_lsb, app_uuid_msb): the
\* first jlong is app_uuid_lsb, the second app_uuid_msb.
RegisterNative(from, to) ==
    /\ uuidPc = from
    /\ LET app_uuid_lsb == uuidJ.native[1]
           app_uuid_msb == uuidJ.native[2]
       IN  IF ~sGattIf
           THEN uuidPc' = "returned" /\ UNCHANGED uuidStack
           ELSE /\ uuidStack' = set_uuid(UnsetUuid, app_uuid_msb, app_uuid_lsb)
                /\ uuidPc' = to
    /\ UNCHANGED <<sGattIf, bridgeVars, uuidArg, uuidUp, uuidBack, uuidJ, addrVars, scopedVars>>

\* btgatts_register_app_cb(status, server_if, uuid) and
\* ble_advertiser_register_cb(uuid, advertiser_id, status): CHECK_CALLBACK_ENV,
\* then the upcall with (status, id, UUID_PARAMS(uuid)).
RegisteredCallback(from, to) ==
    /\ uuidPc = from
    /\ \E threadOk \in BOOLEAN :
          IF ~threadOk
          THEN uuidPc' = "callback_dropped" /\ UNCHANGED <<uuidUp, uuidJ>>
          ELSE /\ uuidUp' = UUID_PARAMS(uuidStack)
               /\ uuidJ' = [uuidJ EXCEPT !.upcall = UUID_PARAMS_list(uuidStack)]
               /\ uuidPc' = to
    /\ UNCHANGED <<sGattIf, bridgeVars, uuidArg, uuidStack, uuidBack, addrVars, scopedVars>>

gattServerRegisterAppNative == RegisterNative("java_register_server", "register_server")

btgatts_register_app_cb == RegisteredCallback("register_server", "onServerRegistered")

registerAdvertiserNative ==
    RegisterNative("java_register_advertiser", "RegisterAdvertiser")

ble_advertiser_register_cb ==
    RegisteredCallback("RegisterAdvertiser", "onAdvertiserRegistered")

\* btgattc_get_gatt_db_cb -> fillGattDbElementArray: a UUID of the stack's
\* database becomes a java.util.UUID(msb, lsb).
btgattc_get_gatt_db_cb ==
    /\ uuidPc = "stack_db"
    /\ \E threadOk \in BOOLEAN :
          IF ~threadOk
          THEN uuidPc' = "callback_dropped" /\ UNCHANGED uuidUp
          ELSE /\ uuidUp' = [msb |-> uuid_msb(uuidStack), lsb |-> uuid_lsb(uuidStack)]
               /\ uuidPc' = "onGetGattDb"
    /\ UNCHANGED <<sGattIf, bridgeVars, uuidArg, uuidStack, uuidBack, uuidJ, addrVars, scopedVars>>

\* gattServerAddServiceNative: the java.util.UUID of an element is packed into
\* the element handed to add_service.
gattServerAddServiceNative ==
    /\ uuidPc = "onGetGattDb"
    /\ IF ~sGattIf
       THEN uuidPc' = "returned" /\ UNCHANGED uuidBack
       ELSE /\ uuidBack' = set_uuid(UnsetUuid, uuidUp.msb, uuidUp.lsb)
            /\ uuidPc' = "add_service"
    /\ UNCHANGED <<sGattIf, bridgeVars, uuidArg, uuidStack, uuidUp, uuidJ, addrVars, scopedVars>>

\* A profile bridge before initNative: no interface, no callbacks object.
\* JNIEnv pointers and references are numbers, 0 being NULL.
NoA2dp == [sBluetoothA2dpInterface |-> FALSE, mCallbacksObj |-> 0]
NoAvrcp ==
    [sBluetoothAvrcpInterface |-> FALSE, sCallbacksObj |-> 0, sCallbackEnv |-> 0,
     class_MediaBrowser_MediaItem |-> 0, class_AvrcpPlayer |-> 0]
NoGatt == [btIf |-> FALSE, mCallbacksObj |-> 0, sCallbackEnv |-> 0]
NoRefs == [made |-> 0, live |-> {}]

\* The record of a call: which function of which bridge, whether the
\* Bluetooth module was loaded, the bridge's interface pointer and callbacks
\* object before it; for a callback the JNIEnv of the thread, the one
\* getCallbackEnv() has to offer, whether the callback compared them, the
\* JNIEnv it used, the arrays it allocated and the upcalls it made; for a
\* write the jbyteArray given and the vector forwarded, both as runs of
\* equal bytes; for a command the array elements and strings it acquired
\* and released, the functions of the native stack it invoked, what it
\* returned and whether it threw; args and sent are what the function was
\* given and what it handed on.
NoCall ==
    [fn |-> "none", bridge |-> "none", loaded |-> FALSE,
     pre |-> [interface |-> FALSE, callbacks |-> 0],
     threadEnv |-> 0, callbackEnv |-> 0, checked |-> FALSE, envUsed |-> 0,
     allocs |-> 0, upcalls |-> 0, outcome |-> "returned",
     value |-> [null |-> TRUE, runs |-> <<>>], vect |-> <<>>,
     acquired |-> 0, freed |-> 0, stackCalls |-> 0, ret |-> "void",
     thrown |-> FALSE, args |-> <<>>, sent |-> <<>>]

\* The three bridges.
Bridges == {"a2dp", "avrcp", "gatt"}

\* The native stack before any call: no profile interface has been
\* initialised, and none has been misused (cleanup() without a successful
\* init() before it, init() on an initialised interface).
NoStack == [b \in Bridges |-> [inited |-> FALSE, misuse |-> "none"]]

\* Both threads outside the bridge.
NoThreads ==
    [svc |-> [pc |-> "idle", bridge |-> "none"],
     cbk |-> [pc |-> "idle", bridge |-> "none", ref |-> 0]]

BridgeOff ==
    /\ a2dp = NoA2dp
    /\ avrcp = NoAvrcp
    /\ gatt = NoGatt
    /\ globalRefs = NoRefs
    /\ last = NoCall
    /\ stack = NoStack
    /\ threads = NoThreads

AddrOff ==
    /\ addrPc = "off"
    /\ addrText = <<>>
    /\ addrEntry = "none"
    /\ origBda = UnsetBda
    /\ stackBda = UnsetBda
    /\ parseRan = FALSE
    /\ upText = <<>>
    /\ nRead = 0
    /\ utfLive = 0

ScopedOff ==
    /\ objState = "off"
    /\ mAddr = 0
    /\ arrays = <<>>
    /\ newCalls = 0
    /\ released = <<>>
    /\ written = <<>>
    /\ lastGet = -1
    /\ ops = <<>>

InitUuid ==
    /\ sGattIf \in BOOLEAN
    /\ \/ /\ uuidPc \in {"java_register", "java_register_server",
                         "java_register_advertiser"}
          /\ uuidArg \in [lsb : WordInputs, msb : WordInputs]
          /\ uuidJ = [native |-> <<uuidArg.lsb, uuidArg.msb>>, upcall |-> <<>>]
          /\ uuidStack = NoUuid
       \/ /\ uuidPc = "stack_db"
          /\ uuidArg = NoWords
          /\ uuidJ = NoJlongs
          /\ uuidStack \in UuidInputs
    /\ uuidUp = NoWords
    /\ uuidBack = NoUuid
    /\ AddrOff
    /\ ScopedOff
    /\ BridgeOff

NextUuid ==
    \/ gattClientRegisterAppNative
    \/ btgattc_register_app_cb
    \/ btgattc_get_gatt_db_cb
    \/ gattServerAddServiceNative
    \/ gattServerRegisterAppNative
    \/ btgatts_register_app_cb
    \/ registerAdvertiserNative
    \/ ble_advertiser_register_cb

SpecUuid == InitUuid /\ [][NextUuid]_vars

(***************************************************************************)
(* Claims about the UUID codec.                                            *)
(***************************************************************************)

\* Byte i (0..7) of a 64-bit value: floor(value / 2^(8i)) mod 256, on the limbs.
ByteOf(w, i) == (w[(i \div 2) + 1] \div (IF i % 2 = 0 THEN 1 ELSE 256)) % 256

\* C1: for every (msb, lsb), negative values included, packing with set_uuid
\* and unpacking with uuid_msb / uuid_lsb returns exactly (msb, lsb).
C1_PackUnpackRoundTrip ==
    uuidPc = "onClientRegistered" =>
        /\ uuidUp.msb = uuidArg.msb
        /\ uuidUp.lsb = uuidArg.lsb

\* C1 witness: a pair with a negative half and two different halves has made
\* the round trip.
C1_Witness ==
    /\ uuidPc = "onClientRegistered"
    /\ Negative(uuidArg.msb)
    /\ ~Negative(uuidArg.lsb)
    /\ uuidArg.lsb # ZeroWord

\* C2: set_uuid writes byte i as (lsb >> 8i) & 0xFF and byte i+8 as
\* (msb >> 8i) & 0xFF for every i in 0..7; all 16 bytes are written and each
\* is in 0..255.
C2_PackLayout ==
    uuidPc = "register_client" =>
        /\ DOMAIN uuidStack = 0..15
        /\ \A i \in 0..15 : uuidStack[i] \in 0..255
        /\ \A i \in 0..7 :
              /\ uuidStack[i] = ByteOf(uuidArg.lsb, i)
              /\ uuidStack[i + 8] = ByteOf(uuidArg.msb, i)

\* C2 witness: a packed buffer whose two top bytes differ and are both >= 0x80.
C2_Witness ==
    /\ uuidPc = "register_client"
    /\ uuidStack[7] >= 128
    /\ uuidStack[15] >= 128
    /\ uuidStack[7] # uuidStack[15]
    /\ uuidStack[0] # uuidStack[1]

\* C3: for every 16-byte buffer b, packing the halves obtained by unpacking b
\* reproduces b byte for byte.
C3_UnpackPackRoundTrip ==
    uuidPc = "add_service" => uuidBack = uuidStack

\* C3 witness: a buffer of sixteen different bytes has made the round trip.
C3_Witness ==
    /\ uuidPc = "add_service"
    /\ Cardinality({uuidStack[i] : i \in 0..15}) = 16
    /\ \E i \in 0..15 : uuidStack[i] >= 128

(***************************************************************************)
(* Inputs of the address codec.                                            *)
(***************************************************************************)

\* Generated 6-byte sample addresses are BdaSample(0..MaxBdaSample).
MaxBdaSample == 3

\* Address texts of the wrong length have 0..MaxTextLen characters.
MaxTextLen == 19

UpperHex == <<48, 49, 50, 51, 52, 53, 54, 55, 56, 57, 65, 66, 67, 68, 69, 70>>
LowerHex == <<48, 49, 50, 51, 52, 53, 54, 55, 56, 57, 97, 98, 99, 100, 101, 102>>
HexChars == {UpperHex[n] : n \in 1..16} \cup {LowerHex[n] : n \in 1..16}

BdaSample(n) == [i \in 0..5 |-> (n * 53 + i * (32 * n + 17)) % 256]

\* AA:BB:CC:DD:EE:FF, 1A:2B:3C:4D:5E:6F, 00:..:00, FF:..:FF and generated ones.
NamedBdas ==
    {[i \in 0..5 |-> 170 + 17 * i], [i \in 0..5 |-> 26 + 17 * i],
     [i \in 0..5 |-> 0], [i \in 0..5 |-> 255]}
    \cup {BdaSample(n) : n \in 0..MaxBdaSample}

\* Addresses the native stack may report: the named ones, and every value of
\* the first and of the last byte.
BdaInputs ==
    NamedBdas \cup {[BdaSample(0) EXCEPT ![k] = v] : k \in {0, 5}, v \in 0..255}

\* The text of an address with the digit cases given by style (a pair of
\* digit tables: one for the first digit of an octet, one for the second).
Render(b, style) ==
    LET oct(k) == <<style[1][(b[k] \div 16) + 1], style[2][(b[k] % 16) + 1]>>
    IN  oct(0) \o <<58>> \o oct(1) \o <<58>> \o oct(2) \o <<58>>
        \o oct(3) \o <<58>> \o oct(4) \o <<58>> \o oct(5)

Styles ==
    {<<UpperHex, UpperHex>>, <<LowerHex, LowerHex>>,
     <<UpperHex, LowerHex>>, <<LowerHex, UpperHex>>}

\* Well-formed texts: the named addresses in every style, and every pair of
\* hex digits in the first and in the last octet.
WellFormedTexts ==
    {Render(b, st) : b \in NamedBdas, st \in Styles}
    \cup {[Render(BdaSample(0), <<UpperHex, UpperHex>>)
              EXCEPT ![3 * k + 1] = h, ![3 * k + 2] = l] :
             k \in {0, 5}, h \in HexChars, l \in HexChars}

\* "AA:BB:CC:DD:EE:FF:11:22:33", cut to every length but 17, and "short".
LongText ==
    Render([i \in 0..5 |-> 170 + 17 * i], <<UpperHex, UpperHex>>)
    \o <<58, 49, 49, 58, 50, 50, 58, 51, 51>>

BadLengthTexts ==
    {SubSeq(LongText, 1, n) :
        n \in (0..(IF MaxTextLen < Len(LongText) THEN MaxTextLen ELSE Len(LongText)))
              \ {17}}
    \cup {<<115, 104, 111, 114, 116>>}

\* Characters that are neither hex digits nor colons ('!', '-', 'G', 'z'),
\* and the colon.
OddChars == {33, 45, 71, 122, 58}

\* Texts of 17 characters that are not well formed: "AA:BB:CC:DD:EE:FF" with
\* one character replaced by an odd one, with every separator replaced by
\* '-', and seventeen colons.
MalformedTexts ==
    LET base == Render([i \in 0..5 |-> 170 + 17 * i], <<UpperHex, UpperHex>>)
    IN  ({[base EXCEPT ![j] = c] : j \in 1..17, c \in OddChars} \ {base})
        \cup {[j \in 1..17 |-> IF j % 3 = 0 THEN 45 ELSE base[j]]}
        \cup {[j \in 1..17 |-> 58]}

TextInputs == WellFormedTexts \cup BadLengthTexts \cup MalformedTexts

\* What an uninitialised bt_bdaddr_t on the stack may hold.
JunkBdas == {[i \in 0..5 |-> 204], [i \in 0..5 |-> 170 + 17 * i]}

\* What the memory past a string's terminator may hold.
GarbageChars == {58, 65}

AddrEntries == {"gattClientConnectNative", "gattClientRegisterForNotificationsNative"}

(***************************************************************************)
(* The address on its way across the boundary.                             *)
(***************************************************************************)

\* gattClientConnectNative(env, object, clientif, address, isDirect, transport);
\* gattClientGetDeviceTypeNative, gattClientDisconnectNative,
\* gattClientRefreshNative, gattClientReadRemoteRssiNative,
\* gattConnectionParameterUpdateNative and gattServerDisconnectNative have its
\* shape.
gattClientConnectNative ==
    /\ addrPc = "java_call"
    /\ addrEntry = "gattClientConnectNative"
    /\ IF ~sGattIf
       THEN addrPc' = "returned" /\ UNCHANGED <<stackBda, parseRan, nRead, utfLive>>
       ELSE \E utfOk \in BOOLEAN, junk \in JunkBdas, g \in GarbageChars :
               LET r == jstr2bdaddr(junk, addrText, utfOk, g)
               IN  /\ stackBda' = r.bda
                   /\ parseRan' = r.ran
                   /\ nRead' = r.nread
                   /\ utfLive' = utfLive + r.leaked
                   /\ addrPc' = "connect"
    /\ UNCHANGED <<sGattIf, bridgeVars, addrText, addrEntry, origBda, upText, uuidVars, scopedVars>>

\* gattClientRegisterForNotificationsNative(env, object, clientIf, address,
\* handle, enable); gattServerConnectNative has its shape.
gattClientRegisterForNotificationsNative ==
    /\ addrPc = "java_call"
    /\ addrEntry = "gattClientRegisterForNotificationsNative"
    /\ IF ~sGattIf
       THEN addrPc' = "returned" /\ UNCHANGED <<stackBda, parseRan, nRead, utfLive>>
       ELSE \E utfOk \in BOOLEAN, junk \in JunkBdas, g \in GarbageChars,
               enable \in BOOLEAN :
               IF ~utfOk
               THEN \* bd_addr_str_to_addr reads through a null pointer
                    /\ addrPc' = "crashed"
                    /\ UNCHANGED <<stackBda, parseRan, nRead, utfLive>>
               ELSE LET r == bd_addr_str_to_addr(addrText, g, junk)
                    IN  /\ stackBda' = r.bd_addr
                        /\ parseRan' = TRUE
                        /\ nRead' = r.nread
                        /\ utfLive' = utfLive + 1
                        /\ addrPc' = IF enable THEN "register_for_notification"
                                     ELSE "deregister_for_notification"
    /\ UNCHANGED <<sGattIf, bridgeVars, addrText, addrEntry, origBda, upText, uuidVars, scopedVars>>

\* The entry point has called a function of the native stack with stackBda.
StackCalled == {"connect", "register_for_notification", "deregister_for_notification"}

\* btgattc_open_cb(conn_id, status, clientIf, bda): the stack reports the
\* connection to the address it was asked to connect to.
btgattc_open_cb ==
    /\ addrPc = "connect"
    /\ \E threadOk \in BOOLEAN :
          IF ~threadOk
          THEN addrPc' = "callback_dropped" /\ UNCHANGED upText
          ELSE /\ upText' = bdaddr2newjstr(stackBda)
               /\ addrPc' = "onConnected"
    /\ UNCHANGED <<sGattIf, bridgeVars, addrText, addrEntry, origBda, stackBda, parseRan, nRead,
                   utfLive, uuidVars, scopedVars>>

\* btgattc_scan_result_cb(bda, rssi, adv_data): the stack reports a device.
btgattc_scan_result_cb ==
    /\ addrPc = "stack_scan"
    /\ \E threadOk \in BOOLEAN :
          IF ~threadOk
          THEN addrPc' = "callback_dropped" /\ UNCHANGED upText
          ELSE /\ upText' = bdaddr2newjstr(origBda)
               /\ addrPc' = "onScanResult"
    /\ UNCHANGED <<sGattIf, bridgeVars, addrText, addrEntry, origBda, stackBda, parseRan, nRead,
                   utfLive, uuidVars, scopedVars>>

\* The managed layer passes the address text it was given to an entry point.
ManagedCall ==
    /\ addrPc = "onScanResult"
    /\ addrText' = upText
    /\ addrEntry' \in AddrEntries
    /\ addrPc' = "java_call"
    /\ UNCHANGED <<sGattIf, bridgeVars, origBda, stackBda, parseRan, upText, nRead, utfLive,
                   uuidVars, scopedVars>>

UuidOff ==
    /\ uuidPc = "off"
    /\ uuidArg = NoWords
    /\ uuidStack = NoUuid
    /\ uuidUp = NoWords
    /\ uuidBack = NoUuid
    /\ uuidJ = NoJlongs

InitAddr ==
    /\ sGattIf \in BOOLEAN
    /\ \/ /\ addrPc = "java_call"
          /\ addrText \in TextInputs
          /\ addrEntry \in AddrEntries
          /\ origBda = UnsetBda
       \/ /\ addrPc = "stack_scan"
          /\ addrText = <<>>
          /\ addrEntry = "none"
          /\ origBda \in BdaInputs
    /\ stackBda = UnsetBda
    /\ parseRan = FALSE
    /\ upText = <<>>
    /\ nRead = 0
    /\ utfLive = 0
    /\ UuidOff
    /\ ScopedOff
    /\ BridgeOff

NextAddr ==
    \/ gattClientConnectNative
    \/ gattClientRegisterForNotificationsNative
    \/ btgattc_open_cb
    \/ btgattc_scan_result_cb
    \/ ManagedCall

SpecAddr == InitAddr /\ [][NextAddr]_vars

(***************************************************************************)
(* Claims about the address codec.                                         *)
(***************************************************************************)

\* The value of a hexadecimal digit, by table.
HexValue(c) == CHOOSE n \in 0..15 : UpperHex[n + 1] = c \/ LowerHex[n + 1] = c

\* XX:XX:XX:XX:XX:XX, hex digits in either case.
WellFormed(t) ==
    /\ Len(t) = 17
    /\ \A j \in 1..17 : IF j % 3 = 0 THEN t[j] = 58 ELSE t[j] \in HexChars

\* The text with its lower-case letters upper-cased.
Normalize(t) == [j \in 1..Len(t) |-> IF t[j] >= 97 /\ t[j] <= 122 THEN t[j] - 32 ELSE t[j]]

\* C4: for every well-formed text, parsing yields six bytes, byte k being
\* 16 * value(first digit of octet k) + value(second digit of octet k), for
\* digits of either case.
C4_ParseWellFormed ==
    (addrPc \in StackCalled /\ parseRan /\ WellFormed(addrText)) =>
        /\ DOMAIN stackBda = 0..5
        /\ \A k \in 0..5 :
              stackBda[k] = 16 * HexValue(addrText[3 * k + 1]) + HexValue(addrText[3 * k + 2])

\* C4 witness: a well-formed text with a lower-case and an upper-case letter
\* digit has been parsed.
C4_Witness ==
    /\ addrPc \in StackCalled
    /\ parseRan
    /\ WellFormed(addrText)
    /\ \E j \in 1..17 : addrText[j] \in 97..102
    /\ \E j \in 1..17 : addrText[j] \in 65..70

\* The address an upcall's text was formatted from.
Formatted == IF addrPc = "onScanResult" THEN origBda ELSE stackBda

C6_FormatParse ==
    (addrPc = "onConnected" /\ parseRan /\ WellFormed(addrText)) =>
        upText = Normalize(addrText)

\* C6 witness: a text with lower-case digits has been parsed and formatted.
C6_Witness ==
    /\ addrPc = "onConnected"
    /\ parseRan
    /\ WellFormed(addrText)
    /\ addrText # Normalize(addrText)

\* C7: for every 6-byte address b, parse(format(b)) = b.
C7_ParseFormat ==
    (addrPc \in StackCalled /\ parseRan /\ origBda # UnsetBda) =>
        stackBda = origBda

\* C7 witness: an address of six different bytes, one below 0x10, has been
\* formatted and parsed.
C7_Witness ==
    /\ addrPc \in StackCalled
    /\ parseRan
    /\ origBda # UnsetBda
    /\ Cardinality({origBda[k] : k \in 0..5}) = 6
    /\ \E k \in 0..5 : origBda[k] < 16

\* C8: for every address text whose length differs from 17, parsing fails and
\* the failure reaches the caller: no entry point invokes the native stack
\* with an address that no successful parse produced.
C8_BadLengthRefused ==
    Len(addrText) # 17 => addrPc \notin StackCalled

\* GetStringUTFChars handed the characters of the text to the entry point:
\* they were parsed, or they were left unreleased.
UtfGiven == parseRan \/ utfLive > 0

\* C20: a text of 17 characters that has a character other than a hex digit
\* in a digit position, or something other than a colon in a separator
\* position, is not refused: the parse runs, the native stack is called, and
\* all six bytes are written with values that depend on the characters of
\* the text only (not on what the bytes held, nor on memory past the text);
\* with hex digits in every digit position the bytes are the values of the
\* digit pairs, whatever the separators are.
C20_MalformedNotRefused ==
    (addrPc \in StackCalled /\ UtfGiven /\ Len(addrText) = 17 /\ ~WellFormed(addrText)) =>
        /\ parseRan
        /\ \A k \in 0..5 : stackBda[k] \in 0..255
        /\ stackBda = bd_addr_str_to_addr(addrText, 0, UnsetBda).bd_addr
        /\ (\A j \in 1..17 : j % 3 # 0 => addrText[j] \in HexChars) =>
              \A k \in 0..5 :
                  stackBda[k] = 16 * HexValue(addrText[3 * k + 1])
                                + HexValue(addrText[3 * k + 2])

\* C20 witness: "GA:BB:CC:DD:EE:FF" has been parsed and the stack called with
\* 0A:BB:CC:DD:EE:FF.
C20_Witness ==
    /\ addrPc = "connect"
    /\ parseRan
    /\ Len(addrText) = 17
    /\ addrText[1] = 71
    /\ stackBda = [[i \in 0..5 |-> 170 + 17 * i] EXCEPT ![0] = 10]

(***************************************************************************)
(* ScopedBtAddr.                                                           *)
(***************************************************************************)

\* Number of reset() / get() calls made on an object between its construction
\* and its destruction.
MaxOps == 4

\* What the storage of mAddr may hold before the constructor runs: nullptr, or
\* a bit pattern that is no reference NewByteArray returned.
UninitialisedMAddr == {0, 99}

\* The const bt_bdaddr_t* argument: nullptr, or a pointer to an address.
NullAddr == [null |-> TRUE, address |-> UnsetBda]
AddrArg(b) == [null |-> FALSE, address |-> b]

\* The addresses the object is given.
ScopedAddrs == {[i \in 0..5 |-> 170 + 17 * i], [i \in 0..5 |-> 26 + 17 * i]}

\* The object and the references of its environment, as one record.
Obj ==
    [mAddr |-> mAddr, arrays |-> arrays, newCalls |-> newCalls,
     released |-> released, written |-> written]

\* NewByteArray(sizeof(bt_bdaddr_t)): a fresh zero-filled array, or NULL.
NewByteArray(o, allocOk) ==
    IF allocOk
    THEN [o EXCEPT !.newCalls = @ + 1,
                   !.arrays = Append(@, [i \in 0..(BD_ADDR_LEN - 1) |-> 0]),
                   !.mAddr = Len(o.arrays) + 1]
    ELSE [o EXCEPT !.newCalls = @ + 1, !.mAddr = 0]

\* SetByteArrayRegion(mAddr, 0, sizeof(bt_bdaddr_t), addr).
SetByteArrayRegion(o, address) ==
    [o EXCEPT !.written = Append(@, o.mAddr),
              !.arrays = IF o.mAddr \in DOMAIN @
                         THEN [@ EXCEPT ![o.mAddr] = address] ELSE @]

\* A plausible slip: a new array is allocated on every reset(addr).
reset_realloc(o, addr, allocOk) ==
    IF addr.null
    THEN IF o.mAddr # 0
         THEN [o EXCEPT !.released = Append(@, o.mAddr), !.mAddr = 0]
         ELSE o
    ELSE LET a == NewByteArray(o, allocOk)
         IN  IF a.mAddr = 0 THEN a ELSE SetByteArrayRegion(a, addr.address)

\* A plausible slip: reset() releases the buffer but keeps the stale handle.
reset_keep_handle(o, addr, allocOk) ==
    IF addr.null
    THEN IF o.mAddr # 0
         THEN [o EXCEPT !.released = Append(@, o.mAddr)]
         ELSE o
    ELSE LET a == IF o.mAddr = 0 THEN NewByteArray(o, allocOk) ELSE o
         IN  IF a.mAddr = 0 THEN a ELSE SetByteArrayRegion(a, addr.address)

\* A plausible slip: no return after a failed NewByteArray, so the address is
\* written through the null handle.
reset_no_return(o, addr, allocOk) ==
    IF addr.null
    THEN IF o.mAddr # 0
         THEN [o EXCEPT !.released = Append(@, o.mAddr), !.mAddr = 0]
         ELSE o
    ELSE LET a == IF o.mAddr = 0 THEN NewByteArray(o, allocOk) ELSE o
         IN  SetByteArrayRegion(a, addr.address)

\* ScopedBtAddr::reset(addr).
reset(o, addr, allocOk) ==
    IF addr.null
    THEN IF o.mAddr # 0
         THEN [o EXCEPT !.released = Append(@, o.mAddr), !.mAddr = 0]
         ELSE o
    ELSE LET a == IF o.mAddr = 0 THEN NewByteArray(o, allocOk) ELSE o
         IN  IF a.mAddr = 0 THEN a ELSE SetByteArrayRegion(a, addr.address)

\* The object's fields and the environment after a call, and the call's
\* entry in the history: the call, its argument, and the object and the
\* environment before and after it.
Becomes(o, op, addr) ==
    /\ mAddr' = o.mAddr
    /\ arrays' = o.arrays
    /\ newCalls' = o.newCalls
    /\ released' = o.released
    /\ written' = o.written
    /\ ops' = Append(ops, [op |-> op, before |-> mAddr, after |-> o.mAddr,
                            newBefore |-> newCalls, newAfter |-> o.newCalls,
                            arg |-> addr, pre |-> Obj, post |-> o])

\* ScopedBtAddr::ScopedBtAddr(env, bd_addr): mEnv(env), then reset(bd_addr) on
\* the mAddr the storage happens to hold.
ScopedBtAddrCtor ==
    /\ objState = "raw"
    /\ \E addr \in {NullAddr} \cup {AddrArg(b) : b \in ScopedAddrs}, allocOk \in BOOLEAN :
          Becomes(reset(Obj, addr, allocOk),
                  IF addr.null THEN "construct" ELSE "construct_addr", addr)
    /\ objState' = "alive"
    /\ UNCHANGED <<sGattIf, bridgeVars, lastGet, uuidVars, addrVars>>

\* reset(addr) with an address.
ResetAddr ==
    /\ objState = "alive"
    /\ Len(ops) <= MaxOps
    /\ \E b \in ScopedAddrs, allocOk \in BOOLEAN :
          Becomes(reset(Obj, AddrArg(b), allocOk), "reset_addr", AddrArg(b))
    /\ UNCHANGED <<sGattIf, bridgeVars, objState, lastGet, uuidVars, addrVars>>

\* reset() with no address.
ResetNull ==
    /\ objState = "alive"
    /\ Len(ops) <= MaxOps
    /\ Becomes(reset(Obj, NullAddr, TRUE), "reset", NullAddr)
    /\ UNCHANGED <<sGattIf, bridgeVars, objState, lastGet, uuidVars, addrVars>>

\* ScopedBtAddr::get().
Get ==
    /\ objState = "alive"
    /\ Len(ops) <= MaxOps
    /\ lastGet' = mAddr
    /\ Becomes(Obj, "get", NullAddr)
    /\ UNCHANGED <<sGattIf, bridgeVars, objState, uuidVars, addrVars>>

\* ScopedBtAddr::~ScopedBtAddr(): reset().
ScopedBtAddrDtor ==
    /\ objState = "alive"
    /\ Becomes(reset(Obj, NullAddr, TRUE), "destroy", NullAddr)
    /\ objState' = "destroyed"
    /\ UNCHANGED <<sGattIf, bridgeVars, lastGet, uuidVars, addrVars>>

InitScoped ==
    /\ sGattIf = FALSE
    /\ objState = "raw"
    /\ mAddr \in UninitialisedMAddr
    /\ arrays = <<>>
    /\ newCalls = 0
    /\ released = <<>>
    /\ written = <<>>
    /\ lastGet = -1
    /\ ops = <<>>
    /\ UuidOff
    /\ AddrOff
    /\ BridgeOff

NextScoped ==
    \/ ScopedBtAddrCtor
    \/ ResetAddr
    \/ ResetNull
    \/ Get
    \/ ScopedBtAddrDtor

SpecScoped == InitScoped /\ [][NextScoped]_vars

(***************************************************************************)
(* Claims about ScopedBtAddr.                                              *)
(***************************************************************************)

\* reset(addr1) directly followed by reset(addr2), the first on an object that
\* holds no buffer: the positions of the first call in the history.
ResetPairs ==
    {n \in 1..(Len(ops) - 1) :
        /\ ops[n].op = "reset_addr"
        /\ ops[n].before = 0
        /\ ops[n + 1].op = "reset_addr"}

\* C9 as stated: on an object that holds no buffer, reset(addr1) followed by
\* reset(addr2) performs exactly one NewByteArray in total, and the handle is
\* the same before and after the second call.
C9_OneAcquisitionAlways ==
    \A n \in ResetPairs :
        /\ ops[n + 1].newAfter - ops[n].newBefore = 1
        /\ ops[n + 1].after = ops[n + 1].before

\* C9 amended: when the acquisition of reset(addr1) succeeds, the two calls
\* perform exactly one NewByteArray in total; and reset(address) on an object
\* that holds a buffer never calls NewByteArray and leaves the handle that
\* get() returns unchanged.
C9_OneAcquisitionWhenFirstSucceeds ==
    /\ \A n \in ResetPairs :
          ops[n].after # 0 =>
              /\ ops[n + 1].newAfter - ops[n].newBefore = 1
              /\ ops[n + 1].after = ops[n].after
    /\ \A n \in 1..Len(ops) :
          (ops[n].op = "reset_addr" /\ ops[n].before # 0) =>
              /\ ops[n].newAfter = ops[n].newBefore
              /\ ops[n].after = ops[n].before

\* C9 witness: an object constructed with no address on zeroed storage has
\* had reset(addr1) and reset(addr2), and holds the second address in the
\* array the first call acquired.
C9_Witness ==
    /\ Len(ops) = 3
    /\ ops[1].op = "construct" /\ ops[1].before = 0
    /\ 2 \in ResetPairs
    /\ ops[2].after = 1
    /\ mAddr = 1
    /\ Len(written) = 2
    /\ newCalls = 1

\* C10: after any sequence of calls followed by destruction, every buffer that
\* was acquired has been released exactly once, and nothing else has been
\* released.
C10_ReleasedExactlyOnce ==
    objState = "destroyed" =>
        /\ Len(released) = Len(arrays)
        /\ \A h \in 1..Len(arrays) : Cardinality({n \in 1..Len(released) : released[n] = h}) = 1
        /\ \A n \in 1..Len(released) : released[n] \in 1..Len(arrays)

\* The positions in the history of the calls named op.
Calls(op) == {n \in 1..Len(ops) : ops[n].op = op}

\* C11: constructing with an address behaves as reset(address) on an object
\* that holds no buffer (one NewByteArray, and when it succeeds the object
\* holds a six-byte array with the bytes of the address); constructing with
\* no address leaves the object without a buffer, with no NewByteArray and no
\* DeleteLocalRef, whatever the storage held before the constructor ran.
C11_CtorIsResetOnEmpty ==
    /\ \A n \in Calls("construct") :
          /\ ops[n].after = 0
          /\ ops[n].newAfter = ops[n].newBefore
          /\ ops[n].post.released = ops[n].pre.released
    /\ \A n \in Calls("construct_addr") :
          /\ ops[n].newAfter = ops[n].newBefore + 1
          /\ ops[n].post.released = ops[n].pre.released
          /\ ops[n].after # 0 =>
                /\ ops[n].after \in DOMAIN ops[n].post.arrays
                /\ ops[n].post.arrays[ops[n].after] = ops[n].arg.address

\* The handles NewByteArray returned that DeleteLocalRef has not been given.
LiveHandles ==
    {h \in 1..Len(arrays) : \A n \in 1..Len(released) : released[n] # h}

\* C12: in every state of a constructed object, the number of buffers
\* acquired and not yet released is 0 or 1, and it is 1 exactly when get()
\* returns a non-null handle.
C12_AtMostOneLive ==
    objState \in {"alive", "destroyed"} =>
        /\ Cardinality(LiveHandles) \in {0, 1}
        /\ Cardinality(LiveHandles) = 1 <=> mAddr # 0

\* The calls of reset(address) that came back holding a buffer.
SuccessfulResets == {n \in Calls("reset_addr") : ops[n].after # 0}

\* C13: reset() on an object whose handle is non-null passes that handle to
\* DeleteLocalRef exactly once and nulls it, and every get() from then until
\* the next reset(address) that succeeds returns null; reset() on an object
\* whose handle is null releases nothing and leaves it null.
C13_ResetNullReleasesOnce ==
    /\ \A n \in Calls("reset") :
          /\ ops[n].after = 0
          /\ ops[n].before # 0 =>
                ops[n].post.released = Append(ops[n].pre.released, ops[n].before)
          /\ ops[n].before = 0 => ops[n].post.released = ops[n].pre.released
    /\ \A n \in Calls("reset"), m \in Calls("get") :
          (m > n /\ \A k \in SuccessfulResets : ~(n < k /\ k < m)) =>
              ops[m].after = 0

\* C13 witness: an object that held buffer 1 has had reset() twice and then
\* get(), which returned null; the buffer was released once.
C13_Witness ==
    /\ Len(ops) = 4
    /\ ops[1].op = "construct_addr" /\ ops[1].before = 0 /\ ops[1].after = 1
    /\ ops[2].op = "reset" /\ ops[3].op = "reset" /\ ops[4].op = "get"
    /\ released = <<1>>
    /\ lastGet = 0

\* The calls of reset(address) on an object without a buffer whose
\* NewByteArray returned NULL.
FailedAcquisitions ==
    {n \in Calls("reset_addr") :
        /\ ops[n].before = 0
        /\ ops[n].newAfter = ops[n].newBefore + 1
        /\ Len(ops[n].post.arrays) = Len(ops[n].pre.arrays)}

\* C14: when reset(address) is called on an object without a buffer and
\* NewByteArray fails, the call returns with the handle still null, no array
\* written, nothing released; and a later reset(address) on the object,
\* still without a buffer, calls NewByteArray again.
C14_FailedAcquisitionLeavesEmpty ==
    \A n \in FailedAcquisitions :
        /\ ops[n].after = 0
        /\ ops[n].post.arrays = ops[n].pre.arrays
        /\ ops[n].post.written = ops[n].pre.written
        /\ ops[n].post.released = ops[n].pre.released
        /\ \A m \in Calls("reset_addr") :
              (m > n /\ ops[m].before = 0) =>
                  ops[m].newAfter = ops[m].newBefore + 1

\* C14 witness: reset(address) failed on an object without a buffer, and the
\* next reset(address) acquired buffer 1 with a second NewByteArray.
C14_Witness ==
    /\ Len(ops) = 3
    /\ 2 \in FailedAcquisitions
    /\ 3 \in SuccessfulResets
    /\ newCalls = 2
    /\ mAddr = 1
    /\ written = <<1>>

\* C15: after every reset(address) that leaves the handle non-null, the
\* handle get() returns is an array of six bytes whose content is the six
\* bytes of the address just supplied, in order.
C15_HoldsSuppliedAddress ==
    \A n \in SuccessfulResets :
        /\ ops[n].after \in DOMAIN ops[n].post.arrays
        /\ DOMAIN ops[n].post.arrays[ops[n].after] = 0..(BD_ADDR_LEN - 1)
        /\ ops[n].post.arrays[ops[n].after] = ops[n].arg.address

(***************************************************************************)
(* The profile bridges: initNative / cleanupNative, the stack callbacks    *)
(* and the GATT write methods.                                             *)
(***************************************************************************)

\* Number of global references NewGlobalRef hands out in one run.
MaxGlobalRefs == 6

\* The JNIEnv pointers: NULL and the environments of two threads.
Envs == {0, 1, 2}

\* NewGlobalRef(obj): the references after the call and the one returned
\* (NULL when the runtime is out of memory).
NewGlobalRef(refs, ok) ==
    IF ok
    THEN [refs |-> [made |-> refs.made + 1, live |-> refs.live \cup {refs.made + 1}],
          ref |-> refs.made + 1]
    ELSE [refs |-> refs, ref |-> 0]

\* DeleteGlobalRef(ref) under the guard `ref != NULL` of every caller.
DeleteGlobalRef(refs, ref) ==
    IF ref # 0 THEN [refs EXCEPT !.live = @ \ {ref}] ELSE refs

\* What the environment decides in initNative: getBluetoothInterface() is
\* non-NULL, NewGlobalRef succeeds, FindClass and NewGlobalRef of the two
\* classes succeed, get_profile_interface returns an interface, init returns
\* BT_STATUS_SUCCESS.
InitInputs ==
    [loaded : BOOLEAN, refOk : BOOLEAN, classOk : BOOLEAN, ifOk : BOOLEAN,
     initOk : BOOLEAN]

\* The calls an interface receives, in order: "cleanup", and "init_ok" or
\* "init_failed" for an init() by its status.  The calls made on finding an
\* old interface in place:
OldCleanup(interface) == IF interface THEN <<"cleanup">> ELSE <<>>

\* init(&callbacks) by its status.
InitCall(initOk) == IF initOk THEN <<"init_ok">> ELSE <<"init_failed">>

\* A plausible slip: the old interface is not cleaned up before init().
a2dp_initNative_no_cleanup(s, refs, in) ==
    IF ~in.loaded THEN [s |-> s, refs |-> refs, calls |-> <<>>]
    ELSE LET refs1 == DeleteGlobalRef(refs, s.mCallbacksObj)
             n == NewGlobalRef(refs1, in.refOk)
             s1 == [sBluetoothA2dpInterface |-> FALSE, mCallbacksObj |-> n.ref]
         IN  IF n.ref = 0 THEN [s |-> s1, refs |-> n.refs, calls |-> <<>>]
             ELSE IF ~in.ifOk THEN [s |-> s1, refs |-> n.refs, calls |-> <<>>]
             ELSE IF ~in.initOk
                  THEN [s |-> s1, refs |-> n.refs, calls |-> InitCall(FALSE)]
             ELSE [s |-> [s1 EXCEPT !.sBluetoothA2dpInterface = TRUE],
                   refs |-> n.refs, calls |-> InitCall(TRUE)]

\* initNative of com_android_bluetooth_a2dp.cpp.
a2dp_initNative(s, refs, in) ==
    IF ~in.loaded THEN [s |-> s, refs |-> refs, calls |-> <<>>]
    ELSE LET refs1 == DeleteGlobalRef(refs, s.mCallbacksObj)
             n == NewGlobalRef(refs1, in.refOk)
             s1 == [sBluetoothA2dpInterface |-> FALSE, mCallbacksObj |-> n.ref]
             old == OldCleanup(s.sBluetoothA2dpInterface)
         IN  IF n.ref = 0 THEN [s |-> s1, refs |-> n.refs, calls |-> old]
             ELSE IF ~in.ifOk THEN [s |-> s1, refs |-> n.refs, calls |-> old]
             ELSE IF ~in.initOk
                  THEN [s |-> s1, refs |-> n.refs, calls |-> old \o InitCall(FALSE)]
             ELSE [s |-> [s1 EXCEPT !.sBluetoothA2dpInterface = TRUE],
                   refs |-> n.refs, calls |-> old \o InitCall(TRUE)]

\* A plausible slip: cleanupNative returns at once when there is no interface.
a2dp_cleanupNative_early_return(s, refs, loaded) ==
    IF ~loaded \/ ~s.sBluetoothA2dpInterface
    THEN [s |-> s, refs |-> refs, calls |-> <<>>]
    ELSE [s |-> [sBluetoothA2dpInterface |-> FALSE, mCallbacksObj |-> 0],
          refs |-> DeleteGlobalRef(refs, s.mCallbacksObj),
          calls |-> <<"cleanup">>]

\* cleanupNative of com_android_bluetooth_a2dp.cpp.
a2dp_cleanupNative(s, refs, loaded) ==
    IF ~loaded THEN [s |-> s, refs |-> refs, calls |-> <<>>]
    ELSE [s |-> [sBluetoothA2dpInterface |-> FALSE, mCallbacksObj |-> 0],
          refs |-> DeleteGlobalRef(refs, s.mCallbacksObj),
          calls |-> OldCleanup(s.sBluetoothA2dpInterface)]

\* initNative of com_android_bluetooth_avrcp_controller.cpp: the two class
\* references are made first, whatever follows.
avrcp_initNative(s, refs, in) ==
    LET c1 == NewGlobalRef(refs, in.classOk)
        c2 == NewGlobalRef(c1.refs, in.classOk)
        s0 == [s EXCEPT !.class_MediaBrowser_MediaItem = c1.ref,
                        !.class_AvrcpPlayer = c2.ref]
        old == OldCleanup(s.sBluetoothAvrcpInterface)
    IN  IF ~in.loaded THEN [s |-> s0, refs |-> c2.refs, calls |-> <<>>]
        ELSE LET refs1 == DeleteGlobalRef(c2.refs, s.sCallbacksObj)
                 s1 == [s0 EXCEPT !.sBluetoothAvrcpInterface = FALSE,
                                  !.sCallbacksObj = 0]
             IN  IF ~in.ifOk THEN [s |-> s1, refs |-> refs1, calls |-> old]
                 ELSE IF ~in.initOk
                      THEN [s |-> s1, refs |-> refs1, calls |-> old \o InitCall(FALSE)]
                 ELSE LET n == NewGlobalRef(refs1, in.refOk)
                      IN  [s |-> [s1 EXCEPT !.sBluetoothAvrcpInterface = TRUE,
                                            !.sCallbacksObj = n.ref],
                           refs |-> n.refs, calls |-> old \o InitCall(TRUE)]

\* cleanupNative of com_android_bluetooth_avrcp_controller.cpp.
avrcp_cleanupNative(s, refs, loaded) ==
    IF ~loaded THEN [s |-> s, refs |-> refs, calls |-> <<>>]
    ELSE [s |-> [s EXCEPT !.sBluetoothAvrcpInterface = FALSE, !.sCallbacksObj = 0],
          refs |-> DeleteGlobalRef(refs, s.sCallbacksObj),
          calls |-> OldCleanup(s.sBluetoothAvrcpInterface)]

\* The statics of com_android_bluetooth_gatt.cpp, sGattIf included.
GattStatics ==
    [sGattIf |-> sGattIf, btIf |-> gatt.btIf, mCallbacksObj |-> gatt.mCallbacksObj,
     sCallbackEnv |-> gatt.sCallbackEnv]

\* initializeNative of com_android_bluetooth_gatt.cpp.
gatt_initializeNative(s, refs, in) ==
    IF s.btIf THEN [s |-> s, refs |-> refs, calls |-> <<>>]
    ELSE IF ~in.loaded THEN [s |-> s, refs |-> refs, calls |-> <<>>]
    ELSE LET refs1 == DeleteGlobalRef(refs, s.mCallbacksObj)
             s1 == [s EXCEPT !.btIf = TRUE, !.sGattIf = FALSE, !.mCallbacksObj = 0]
             old == OldCleanup(s.sGattIf)
         IN  IF ~in.ifOk THEN [s |-> s1, refs |-> refs1, calls |-> old]
             ELSE IF ~in.initOk
                  THEN [s |-> s1, refs |-> refs1, calls |-> old \o InitCall(FALSE)]
             ELSE LET n == NewGlobalRef(refs1, in.refOk)
                  IN  [s |-> [s1 EXCEPT !.sGattIf = TRUE, !.mCallbacksObj = n.ref],
                       refs |-> n.refs, calls |-> old \o InitCall(TRUE)]

\* cleanupNative of com_android_bluetooth_gatt.cpp.
gatt_cleanupNative(s, refs) ==
    IF ~s.btIf THEN [s |-> s, refs |-> refs, calls |-> <<>>]
    ELSE [s |-> [s EXCEPT !.sGattIf = FALSE, !.mCallbacksObj = 0, !.btIf = FALSE],
          refs |-> DeleteGlobalRef(refs, s.mCallbacksObj),
          calls |-> OldCleanup(s.sGattIf)]

\* The native stack's side of an interface after the calls it received.
RECURSIVE StackAfter(_, _)
StackAfter(st, calls) ==
    IF calls = <<>> THEN st
    ELSE LET call == Head(calls)
             wrong == IF call = "cleanup" THEN ~st.inited ELSE st.inited
             misuse == IF st.misuse # "none" \/ ~wrong THEN st.misuse
                       ELSE IF call = "cleanup" THEN "cleanup_uninitialised"
                       ELSE "init_twice"
             inited == IF call = "cleanup" THEN FALSE
                       ELSE IF call = "init_ok" THEN TRUE
                       ELSE st.inited
         IN  StackAfter([inited |-> inited, misuse |-> misuse], Tail(calls))

\* checkCallbackThread(): the JNIEnv getCallbackEnv() returned is the one of
\* the current thread and is not NULL.
checkCallbackThread(sCallbackEnv_, env) ==
    ~(sCallbackEnv_ # env \/ sCallbackEnv_ = 0)

\* CallbackEnv::valid() of com_android_bluetooth.h.
CallbackEnvValid(mCallbackEnv, env) ==
    ~(mCallbackEnv = 0 \/ mCallbackEnv # env)

\* A callback that compares the environments first: when the comparison
\* fails it returns; else it allocates the arrays it needs (NewByteArray may
\* return NULL, and the callback then returns) and makes its upcall.
CheckedCallback(fn, bridge, callbackEnv, threadEnv, pass, needsArray, allocOk) ==
    [NoCall EXCEPT !.fn = fn, !.bridge = bridge,
                   !.callbackEnv = callbackEnv, !.threadEnv = threadEnv,
                   !.checked = TRUE,
                   !.envUsed = IF pass THEN callbackEnv ELSE 0,
                   !.allocs = IF pass /\ needsArray THEN 1 ELSE 0,
                   !.upcalls = IF pass /\ (needsArray => allocOk) THEN 1 ELSE 0]

\* A callback that uses the cached sCallbackEnv as it is: a NULL one is
\* dereferenced, any other is used for NewByteArray and the upcall.
UncheckedCallback(fn, bridge, callbackEnv, threadEnv, cached, allocOk) ==
    [NoCall EXCEPT !.fn = fn, !.bridge = bridge,
                   !.callbackEnv = callbackEnv, !.threadEnv = threadEnv,
                   !.checked = FALSE,
                   !.envUsed = cached,
                   !.outcome = IF cached = 0 THEN "crashed" ELSE "returned",
                   !.allocs = IF cached = 0 THEN 0 ELSE 1,
                   !.upcalls = IF cached # 0 /\ allocOk THEN 1 ELSE 0]

\* The process is alive.
Running == last.outcome # "crashed"

\* The bridges share no static, so a run exercises one of them: the one its
\* first call belongs to.
Exercising(bridge) == Running /\ last.bridge \in {"none", bridge}

\* The record of a call of initNative or cleanupNative.
Called(fn, bridge, loaded, interface, callbacks) ==
    [NoCall EXCEPT !.fn = fn, !.bridge = bridge, !.loaded = loaded,
                   !.pre = [interface |-> interface, callbacks |-> callbacks]]

A2dpInitNative ==
    /\ Exercising("a2dp")
    /\ globalRefs.made + 1 <= MaxGlobalRefs
    /\ \E in \in InitInputs :
          LET r == a2dp_initNative(a2dp, globalRefs, in)
          IN  /\ a2dp' = r.s
              /\ globalRefs' = r.refs
              /\ stack' = [stack EXCEPT !["a2dp"] = StackAfter(@, r.calls)]
              /\ last' = Called("initNative", "a2dp", in.loaded,
                                a2dp.sBluetoothA2dpInterface, a2dp.mCallbacksObj)
    /\ UNCHANGED <<sGattIf, avrcp, gatt, threads, uuidVars, addrVars, scopedVars>>

A2dpCleanupNative ==
    /\ Exercising("a2dp")
    /\ \E loaded \in BOOLEAN :
          LET r == a2dp_cleanupNative(a2dp, globalRefs, loaded)
          IN  /\ a2dp' = r.s
              /\ globalRefs' = r.refs
              /\ stack' = [stack EXCEPT !["a2dp"] = StackAfter(@, r.calls)]
              /\ last' = Called("cleanupNative", "a2dp", loaded,
                                a2dp.sBluetoothA2dpInterface, a2dp.mCallbacksObj)
    /\ UNCHANGED <<sGattIf, avrcp, gatt, threads, uuidVars, addrVars, scopedVars>>

AvrcpInitNative ==
    /\ Exercising("avrcp")
    /\ globalRefs.made + 3 <= MaxGlobalRefs
    /\ \E in \in InitInputs :
          LET r == avrcp_initNative(avrcp, globalRefs, in)
          IN  /\ avrcp' = r.s
              /\ globalRefs' = r.refs
              /\ stack' = [stack EXCEPT !["avrcp"] = StackAfter(@, r.calls)]
              /\ last' = Called("initNative", "avrcp", in.loaded,
                                avrcp.sBluetoothAvrcpInterface, avrcp.sCallbacksObj)
    /\ UNCHANGED <<sGattIf, a2dp, gatt, threads, uuidVars, addrVars, scopedVars>>

AvrcpCleanupNative ==
    /\ Exercising("avrcp")
    /\ \E loaded \in BOOLEAN :
          LET r == avrcp_cleanupNative(avrcp, globalRefs, loaded)
          IN  /\ avrcp' = r.s
              /\ globalRefs' = r.refs
              /\ stack' = [stack EXCEPT !["avrcp"] = StackAfter(@, r.calls)]
              /\ last' = Called("cleanupNative", "avrcp", loaded,
                                avrcp.sBluetoothAvrcpInterface, avrcp.sCallbacksObj)
    /\ UNCHANGED <<sGattIf, a2dp, gatt, threads, uuidVars, addrVars, scopedVars>>

\* The statics of the GATT bridge after a call.
GattBecomes(s) ==
    /\ sGattIf' = s.sGattIf
    /\ gatt' = [btIf |-> s.btIf, mCallbacksObj |-> s.mCallbacksObj,
                sCallbackEnv |-> s.sCallbackEnv]

GattInitializeNative ==
    /\ Exercising("gatt")
    /\ globalRefs.made + 1 <= MaxGlobalRefs
    /\ \E in \in InitInputs :
          LET r == gatt_initializeNative(GattStatics, globalRefs, in)
          IN  /\ GattBecomes(r.s)
              /\ globalRefs' = r.refs
              /\ stack' = [stack EXCEPT !["gatt"] = StackAfter(@, r.calls)]
              /\ last' = Called("initializeNative", "gatt", in.loaded,
                                sGattIf, gatt.mCallbacksObj)
    /\ UNCHANGED <<a2dp, avrcp, threads, uuidVars, addrVars, scopedVars>>

GattCleanupNative ==
    /\ Exercising("gatt")
    /\ \E loaded \in BOOLEAN :
          LET r == gatt_cleanupNative(GattStatics, globalRefs)
          IN  /\ GattBecomes(r.s)
              /\ globalRefs' = r.refs
              /\ stack' = [stack EXCEPT !["gatt"] = StackAfter(@, r.calls)]
              /\ last' = Called("cleanupNative", "gatt", loaded,
                                sGattIf, gatt.mCallbacksObj)
    /\ UNCHANGED <<a2dp, avrcp, threads, uuidVars, addrVars, scopedVars>>

\* CallbackEnv, valid(), NewByteArray, onConnectionStateChanged.
bta2dp_connection_state_callback ==
    /\ Exercising("a2dp")
    /\ a2dp.sBluetoothA2dpInterface
    /\ \E callbackEnv \in Envs, threadEnv \in Envs, allocOk \in BOOLEAN :
          last' = CheckedCallback("bta2dp_connection_state_callback", "a2dp", callbackEnv, threadEnv,
                                  CallbackEnvValid(callbackEnv, threadEnv),
                                  TRUE, allocOk)
    /\ UNCHANGED <<sGattIf, a2dp, avrcp, gatt, globalRefs, stack, threads, uuidVars, addrVars, scopedVars>>

\* CallbackEnv, valid(), onCodecConfigChanged.
bta2dp_audio_config_callback ==
    /\ Exercising("a2dp")
    /\ a2dp.sBluetoothA2dpInterface
    /\ \E callbackEnv \in Envs, threadEnv \in Envs, allocOk \in BOOLEAN :
          last' = CheckedCallback("bta2dp_audio_config_callback", "a2dp", callbackEnv, threadEnv,
                                  CallbackEnvValid(callbackEnv, threadEnv),
                                  FALSE, allocOk)
    /\ UNCHANGED <<sGattIf, a2dp, avrcp, gatt, globalRefs, stack, threads, uuidVars, addrVars, scopedVars>>

\* checkCallbackThread(), NewByteArray, handlePassthroughRsp.
btavrcp_passthrough_response_callback ==
    /\ Exercising("avrcp")
    /\ avrcp.sBluetoothAvrcpInterface
    /\ \E callbackEnv \in Envs, threadEnv \in Envs, allocOk \in BOOLEAN :
          /\ last' = CheckedCallback("btavrcp_passthrough_response_callback", "avrcp", callbackEnv, threadEnv,
                                  checkCallbackThread(callbackEnv, threadEnv),
                                  TRUE, allocOk)
          /\ avrcp' = [avrcp EXCEPT !.sCallbackEnv = callbackEnv]
    /\ UNCHANGED <<sGattIf, a2dp, gatt, globalRefs, stack, threads, uuidVars, addrVars, scopedVars>>

\* checkCallbackThread(), handleGroupNavigationRsp.
btavrcp_groupnavigation_response_callback ==
    /\ Exercising("avrcp")
    /\ avrcp.sBluetoothAvrcpInterface
    /\ \E callbackEnv \in Envs, threadEnv \in Envs, allocOk \in BOOLEAN :
          /\ last' = CheckedCallback("btavrcp_groupnavigation_response_callback", "avrcp", callbackEnv, threadEnv,
                                  checkCallbackThread(callbackEnv, threadEnv),
                                  FALSE, allocOk)
          /\ avrcp' = [avrcp EXCEPT !.sCallbackEnv = callbackEnv]
    /\ UNCHANGED <<sGattIf, a2dp, gatt, globalRefs, stack, threads, uuidVars, addrVars, scopedVars>>

\* No checkCallbackThread(): NewByteArray and onPlayPositionChanged through
\* the sCallbackEnv an earlier callback left.
btavrcp_play_position_changed_callback ==
    /\ Exercising("avrcp")
    /\ avrcp.sBluetoothAvrcpInterface
    /\ \E callbackEnv \in Envs, threadEnv \in Envs, allocOk \in BOOLEAN :
          last' = UncheckedCallback("btavrcp_play_position_changed_callback", "avrcp", callbackEnv, threadEnv,
                                    avrcp.sCallbackEnv, allocOk)
    /\ UNCHANGED <<sGattIf, a2dp, avrcp, gatt, globalRefs, stack, threads, uuidVars, addrVars, scopedVars>>

\* No checkCallbackThread(): NewByteArray and onPlayStatusChanged through
\* the sCallbackEnv an earlier callback left.
btavrcp_play_status_changed_callback ==
    /\ Exercising("avrcp")
    /\ avrcp.sBluetoothAvrcpInterface
    /\ \E callbackEnv \in Envs, threadEnv \in Envs, allocOk \in BOOLEAN :
          last' = UncheckedCallback("btavrcp_play_status_changed_callback", "avrcp", callbackEnv, threadEnv,
                                    avrcp.sCallbackEnv, allocOk)
    /\ UNCHANGED <<sGattIf, a2dp, avrcp, gatt, globalRefs, stack, threads, uuidVars, addrVars, scopedVars>>

\* CHECK_CALLBACK_ENV, onSearchCompleted.
btgattc_search_complete_cb ==
    /\ Exercising("gatt")
    /\ sGattIf
    /\ \E callbackEnv \in Envs, threadEnv \in Envs, allocOk \in BOOLEAN :
          /\ last' = CheckedCallback("btgattc_search_complete_cb", "gatt", callbackEnv, threadEnv,
                                  checkCallbackThread(callbackEnv, threadEnv),
                                  FALSE, allocOk)
          /\ gatt' = [gatt EXCEPT !.sCallbackEnv = callbackEnv]
    /\ UNCHANGED <<sGattIf, a2dp, avrcp, globalRefs, stack, threads, uuidVars, addrVars, scopedVars>>

\* CHECK_CALLBACK_ENV, bdaddr2newjstr, NewByteArray (a NULL array is passed
\* on), onServerWriteCharacteristic.
btgatts_request_write_characteristic_cb ==
    /\ Exercising("gatt")
    /\ sGattIf
    /\ \E callbackEnv \in Envs, threadEnv \in Envs, allocOk \in BOOLEAN :
          /\ last' = [CheckedCallback("btgatts_request_write_characteristic_cb", "gatt", callbackEnv, threadEnv,
                                   checkCallbackThread(callbackEnv, threadEnv),
                                   TRUE, TRUE)
                      EXCEPT !.allocs = IF @ = 1 THEN 2 ELSE 0]
          /\ gatt' = [gatt EXCEPT !.sCallbackEnv = callbackEnv]
    /\ UNCHANGED <<sGattIf, a2dp, avrcp, globalRefs, stack, threads, uuidVars, addrVars, scopedVars>>

\* How many times over the length of a jbyteArray may exceed 16 bits.
MaxWraps == 2

\* 2^16: the values of a uint16_t.
U16Range == 65536

\* (uint16_t) x.
U16(x) == x % U16Range

\* A byte array as runs of equal bytes, <<[b |-> byte, n |-> count], ...>>,
\* adjacent runs differing in b: its length.
RECURSIVE RunsLength(_)
RunsLength(runs) ==
    IF runs = <<>> THEN 0 ELSE Head(runs).n + RunsLength(Tail(runs))

\* The first len bytes of a byte array: vector<uint8_t>(p, p + len).
RECURSIVE VectorOf(_, _)
VectorOf(runs, len) ==
    IF len = 0 \/ runs = <<>> THEN <<>>
    ELSE IF Head(runs).n >= len THEN <<[b |-> Head(runs).b, n |-> len]>>
    ELSE <<Head(runs)>> \o VectorOf(Tail(runs), len - Head(runs).n)

\* The jbyteArray arguments: NULL, and arrays of k * 2^16 + d bytes whose
\* last d bytes differ from the rest.
NullArray == [null |-> TRUE, runs |-> <<>>]
ByteArray(runs) == [null |-> FALSE, runs |-> runs]
WriteValues ==
    {NullArray, ByteArray(<<>>),
     ByteArray(<<[b |-> 1, n |-> 1], [b |-> 2, n |-> 1], [b |-> 255, n |-> 1]>>),
     ByteArray(<<[b |-> 0, n |-> 512]>>),
     ByteArray(<<[b |-> 170, n |-> U16Range - 1]>>)}
    \cup {ByteArray(<<[b |-> 170, n |-> k * U16Range]>>) : k \in 1..MaxWraps}
    \cup {ByteArray(<<[b |-> 170, n |-> k * U16Range], [b |-> 187, n |-> d]>>) :
            k \in 1..MaxWraps, d \in {1, 20}}

\* gattClientWriteCharacteristicNative and gattClientWriteDescriptorNative:
\* nothing without sGattIf, for a NULL array, or when GetByteArrayElements
\* fails; else len = (uint16_t) GetArrayLength(value), and the stack is given
\* vector<uint8_t>(p_value, p_value + len).
gattClientWrite(fn, gattIf, value, elemsOk) ==
    IF ~gattIf \/ value.null \/ ~elemsOk
    THEN [NoCall EXCEPT !.fn = fn, !.bridge = "gatt", !.value = value,
                        !.pre.interface = gattIf]
    ELSE [NoCall EXCEPT !.fn = fn, !.bridge = "gatt", !.value = value,
                        !.pre.interface = gattIf,
                        !.acquired = 1, !.freed = 1, !.stackCalls = 1,
                        !.outcome = "forwarded",
                        !.vect = VectorOf(value.runs, U16(RunsLength(value.runs)))]

gattClientWriteCharacteristicNative ==
    /\ Exercising("gatt")
    /\ \E value \in WriteValues, elemsOk \in BOOLEAN :
          last' = gattClientWrite("gattClientWriteCharacteristicNative", sGattIf,
                                  value, elemsOk)
    /\ UNCHANGED <<sGattIf, a2dp, avrcp, gatt, globalRefs, stack, threads, uuidVars, addrVars, scopedVars>>

gattClientWriteDescriptorNative ==
    /\ Exercising("gatt")
    /\ \E value \in WriteValues, elemsOk \in BOOLEAN :
          last' = gattClientWrite("gattClientWriteDescriptorNative", sGattIf,
                                  value, elemsOk)
    /\ UNCHANGED <<sGattIf, a2dp, avrcp, gatt, globalRefs, stack, threads, uuidVars, addrVars, scopedVars>>

\* connectA2dpNative, disconnectA2dpNative, sendPassThroughCommandNative,
\* sendGroupNavigationCommandNative: JNI_FALSE without the interface; else
\* the address elements are acquired (EINVAL is thrown when that fails),
\* the stack is called, the elements are released and the status decides
\* the result.
AddressCommand_acquire_first(fn, bridge, interface, elemsOk, statusOk) ==
    LET c == [NoCall EXCEPT !.fn = fn, !.bridge = bridge,
                            !.pre.interface = interface, !.ret = "JNI_FALSE"]
    IN  IF ~elemsOk THEN [c EXCEPT !.thrown = TRUE]
        ELSE IF ~interface THEN [c EXCEPT !.acquired = 1, !.freed = 1]
        ELSE [c EXCEPT !.acquired = 1, !.stackCalls = 1, !.freed = 1,
                       !.ret = IF statusOk THEN "JNI_TRUE" ELSE "JNI_FALSE"]

AddressCommand(fn, bridge, interface, elemsOk, statusOk) ==
    LET c == [NoCall EXCEPT !.fn = fn, !.bridge = bridge,
                            !.pre.interface = interface, !.ret = "JNI_FALSE"]
    IN  IF ~interface THEN c
        ELSE IF ~elemsOk THEN [c EXCEPT !.thrown = TRUE]
        ELSE [c EXCEPT !.acquired = 1, !.stackCalls = 1, !.freed = 1,
                       !.ret = IF statusOk THEN "JNI_TRUE" ELSE "JNI_FALSE"]

\* changeFolderPathNative: nothing without the interface; the address
\* elements, then the uid elements are acquired, each failure throwing
\* EINVAL and returning at once; after change_folder_path_cmd only the
\* address elements are released.
changeFolderPath(interface, addrOk, uidOk) ==
    LET c == [NoCall EXCEPT !.fn = "changeFolderPathNative", !.bridge = "avrcp",
                            !.pre.interface = interface]
    IN  IF ~interface THEN c
        ELSE IF ~addrOk THEN [c EXCEPT !.thrown = TRUE]
        ELSE IF ~uidOk THEN [c EXCEPT !.acquired = 1, !.thrown = TRUE]
        ELSE [c EXCEPT !.acquired = 2, !.stackCalls = 1, !.freed = 1]

connectA2dpNative ==
    /\ Exercising("a2dp")
    /\ \E elemsOk \in BOOLEAN, statusOk \in BOOLEAN :
          last' = AddressCommand("connectA2dpNative", "a2dp",
                                 a2dp.sBluetoothA2dpInterface, elemsOk, statusOk)
    /\ UNCHANGED <<sGattIf, a2dp, avrcp, gatt, globalRefs, stack, threads, uuidVars, addrVars, scopedVars>>

sendPassThroughCommandNative ==
    /\ Exercising("avrcp")
    /\ \E elemsOk \in BOOLEAN, statusOk \in BOOLEAN :
          last' = AddressCommand("sendPassThroughCommandNative", "avrcp",
                                 avrcp.sBluetoothAvrcpInterface, elemsOk, statusOk)
    /\ UNCHANGED <<sGattIf, a2dp, avrcp, gatt, globalRefs, stack, threads, uuidVars, addrVars, scopedVars>>

changeFolderPathNative ==
    /\ Exercising("avrcp")
    /\ \E addrOk \in BOOLEAN, uidOk \in BOOLEAN :
          last' = changeFolderPath(avrcp.sBluetoothAvrcpInterface, addrOk, uidOk)
    /\ UNCHANGED <<sGattIf, a2dp, avrcp, gatt, globalRefs, stack, threads, uuidVars, addrVars, scopedVars>>

\* The jlong halves a scan filter mask is given: zero, and values with only
\* a low bit or only the top bit set.
FilterWords == {ZeroWord, <<4096, 0, 0, 0>>, <<0, 0, 0, 32768>>}

\* The filter types: BTM_BLE_PF_SRVC_UUID, BTM_BLE_PF_SRVC_SOL_UUID and a
\* value the switch has no case for.  (The other types take the address,
\* the name or the data arrays instead of the UUID.)
FilterTypes == {2, 3, 7}

\* A bt_uuid_t pointer that is NULL.
NullUuid == <<>>

\* A plausible slip: || in the test of the mask halves.
gattClientScanFilterAddRemove_either(fn, action, gattIf, filt_type, uuid, mask) ==
    LET c == [NoCall EXCEPT !.fn = fn, !.bridge = "gatt", !.pre.interface = gattIf,
                            !.args = [action |-> action, filt_type |-> filt_type,
                                      uuid |-> uuid, mask |-> mask]]
    IN  IF ~gattIf \/ filt_type \notin {2, 3} THEN c
        ELSE [c EXCEPT !.stackCalls = 1,
                       !.sent = [uuid |-> set_uuid(UnsetUuid, uuid.msb, uuid.lsb),
                                 mask |-> IF mask.lsb # ZeroWord \/ mask.msb # ZeroWord
                                          THEN set_uuid(UnsetUuid, mask.msb, mask.lsb)
                                          ELSE NullUuid]]

\* gattClientScanFilterAddNative (gattClientScanFilterDeleteNative differs
\* in the action it passes, 1 for 0) and the cases 2 and 3 of gattClientScanFilterAddRemoveNative: nothing without
\* sGattIf; else uuid and uuid_mask are packed with set_uuid and
\* scan_filter_add_remove is given &uuid and, when both halves of the mask
\* are non-zero, &uuid_mask, else NULL.
gattClientScanFilterAddRemove(fn, action, gattIf, filt_type, uuid, mask) ==
    LET c == [NoCall EXCEPT !.fn = fn, !.bridge = "gatt", !.pre.interface = gattIf,
                            !.args = [action |-> action, filt_type |-> filt_type,
                                      uuid |-> uuid, mask |-> mask]]
    IN  IF ~gattIf \/ filt_type \notin {2, 3} THEN c
        ELSE [c EXCEPT !.stackCalls = 1,
                       !.sent = [uuid |-> set_uuid(UnsetUuid, uuid.msb, uuid.lsb),
                                 mask |-> IF mask.lsb # ZeroWord /\ mask.msb # ZeroWord
                                          THEN set_uuid(UnsetUuid, mask.msb, mask.lsb)
                                          ELSE NullUuid]]

gattClientScanFilterAddNative ==
    /\ Exercising("gatt")
    /\ \E filt_type \in FilterTypes,
          uuid \in [lsb : {SampleWords[3]}, msb : {SampleWords[4]}],
          mask \in [lsb : FilterWords, msb : FilterWords] :
          last' = gattClientScanFilterAddRemove("gattClientScanFilterAddNative", 0,
                                                sGattIf, filt_type, uuid, mask)
    /\ UNCHANGED <<sGattIf, a2dp, avrcp, gatt, globalRefs, stack, threads, uuidVars, addrVars, scopedVars>>

\* Number of player application attributes in one response.
MaxAttrs == 2

\* btrc_player_app_attr_t values: attr_id, num_val and the first num_val
\* bytes of attr_val.
AttrSamples ==
    {[attr_id |-> 1, num_val |-> 0, attr_val |-> <<>>],
     [attr_id |-> 2, num_val |-> 1, attr_val |-> <<7>>],
     [attr_id |-> 3, num_val |-> 2, attr_val |-> <<8, 255>>]}

\* app_attrs with num_attr = Len(app_attrs), indexed from 1.
AttrLists ==
    UNION {[1..n -> AttrSamples] : n \in 0..MaxAttrs}

\* for (i = 0; i < num_attr; i++) arraylen += 2 + app_attrs[i].num_val;
RECURSIVE arraylen_loop(_, _, _)
arraylen_loop(app_attrs, i, arraylen) ==
    IF i >= Len(app_attrs) THEN arraylen
    ELSE arraylen_loop(app_attrs, i + 1, arraylen + 2 + app_attrs[i + 1].num_val)

\* A plausible slip: one byte per attribute instead of two.
playerattribs_arraylen_short(app_attrs) ==
    arraylen_loop(app_attrs, 0, 0) - Len(app_attrs)

playerattribs_arraylen(app_attrs) == arraylen_loop(app_attrs, 0, 0)

\* JNI SetByteArrayRegion(array, start, len, buf) on an array held as a
\* sequence: a region that does not fit raises
\* ArrayIndexOutOfBoundsException and writes nothing.
SetByteArrayRegionAt(array, start, len, buf) ==
    IF start + len > Len(array) THEN array
    ELSE SubSeq(array, 1, start) \o SubSeq(buf, 1, len)
         \o SubSeq(array, start + len + 1, Len(array))

\* The second loop of btavrcp_playerapplicationsetting_callback from
\* attribute i and index k on: the array, the index, the attributes
\* written and whether a write fell outside the array.
RECURSIVE playerattribs_loop(_, _, _, _, _, _)
playerattribs_loop(app_attrs, i, k, arraylen, playerattribs, over) ==
    IF ~(i < Len(app_attrs) /\ k < arraylen)
    THEN [playerattribs |-> playerattribs, k |-> k, i |-> i, over |-> over]
    ELSE LET a == app_attrs[i + 1]
             w1 == SetByteArrayRegionAt(playerattribs, k, 1, <<a.attr_id>>)
             w2 == SetByteArrayRegionAt(w1, k + 1, 1, <<a.num_val>>)
             w3 == SetByteArrayRegionAt(w2, k + 2, a.num_val, a.attr_val)
         IN  playerattribs_loop(app_attrs, i + 1, k + 2 + a.num_val, arraylen, w3,
                                over \/ k + 2 + a.num_val > Len(playerattribs))

\* btavrcp_playerapplicationsetting_callback past checkCallbackThread():
\* NewByteArray for the address, arraylen, NewByteArray(arraylen), the
\* loop, handleplayerappsetting(addr, playerattribs, arraylen).
playerapplicationsetting(c, app_attrs, addrOk, attribsOk) ==
    LET arraylen == playerattribs_arraylen(app_attrs)
        r == playerattribs_loop(app_attrs, 0, 0, arraylen,
                                [j \in 1..arraylen |-> 0], FALSE)
    IN  IF c.upcalls = 0 THEN [c EXCEPT !.args = app_attrs]
        ELSE IF ~addrOk THEN [c EXCEPT !.args = app_attrs, !.allocs = 1, !.upcalls = 0]
        ELSE IF ~attribsOk
             THEN [c EXCEPT !.args = app_attrs, !.allocs = 2, !.upcalls = 0]
        ELSE [c EXCEPT !.args = app_attrs, !.allocs = 2,
                       !.sent = [playerattribs |-> r.playerattribs,
                                 arraylen |-> arraylen, k |-> r.k, i |-> r.i,
                                 over |-> r.over]]

\* checkCallbackThread(), then the flattening of the attributes.
btavrcp_playerapplicationsetting_callback ==
    /\ Exercising("avrcp")
    /\ avrcp.sBluetoothAvrcpInterface
    /\ \E callbackEnv \in {1, 2}, threadEnv \in {1}, app_attrs \in AttrLists,
          allocOk \in {<<TRUE, TRUE>>, <<TRUE, FALSE>>, <<FALSE, TRUE>>} :
         LET addrOk == allocOk[1]
             attribsOk == allocOk[2]
         IN
          /\ last' = playerapplicationsetting(
                         CheckedCallback("btavrcp_playerapplicationsetting_callback",
                                         "avrcp", callbackEnv, threadEnv,
                                         checkCallbackThread(callbackEnv, threadEnv),
                                         FALSE, TRUE),
                         app_attrs, addrOk, attribsOk)
          /\ avrcp' = [avrcp EXCEPT !.sCallbackEnv = callbackEnv]
    /\ UNCHANGED <<sGattIf, a2dp, gatt, globalRefs, stack, threads, uuidVars, addrVars, scopedVars>>

\* Number of items in one folder listing.
MaxItems == 2

\* item_type of a btrc_folder_items_t: BTRC_ITEM_PLAYER, BTRC_ITEM_FOLDER,
\* BTRC_ITEM_MEDIA, and a value the switch has no case for.
ItemTypes == {"BTRC_ITEM_PLAYER", "BTRC_ITEM_FOLDER", "BTRC_ITEM_MEDIA", "other"}

\* folder_items with count = Len(folder_items), indexed from 1.
ItemLists == UNION {[1..n -> ItemTypes] : n \in 0..MaxItems}

\* The loop of btavrcp_get_folder_items_callback from item i on.  The two
\* arrays are "allocated" or "NULL"; SetObjectArrayElement on a NULL array
\* is undefined: nullStore says whether the process dies of it.  A media or
\* folder object that could not be created, or a feature array that could
\* not be allocated, ends the callback.
RECURSIVE folder_items_loop(_, _, _, _, _, _, _)
folder_items_loop(folder_items, i, isPlayerListing, playerItemArray, folderItemArray, objOk, st) ==
    IF i >= Len(folder_items)
    THEN [st EXCEPT !.isPlayerListing = isPlayerListing, !.finished = TRUE]
    ELSE LET item_type == folder_items[i + 1]
             player == item_type = "BTRC_ITEM_PLAYER"
             target == IF player THEN playerItemArray ELSE folderItemArray
         IN  IF item_type = "other"
             THEN folder_items_loop(folder_items, i + 1, isPlayerListing,
                                    playerItemArray, folderItemArray, objOk, st)
             ELSE IF ~objOk THEN [st EXCEPT !.isPlayerListing = isPlayerListing \/ player]
             ELSE IF target = "NULL"
                  THEN folder_items_loop(folder_items, i + 1, isPlayerListing \/ player,
                                         playerItemArray, folderItemArray, objOk,
                                         [st EXCEPT !.nullStores = @ + 1])
             ELSE folder_items_loop(folder_items, i + 1, isPlayerListing \/ player,
                                    playerItemArray, folderItemArray, objOk,
                                    [st EXCEPT !.stores = @ + 1])

\* btavrcp_get_folder_items_callback past checkCallbackThread(): the
\* listing type is read off the first item and one array is allocated; the
\* loop stores each item into the array of its own kind and a player item
\* sets isPlayerListing; the upcall and its argument follow
\* isPlayerListing as the loop left it.
get_folder_items(c, folder_items, arrayOk, objOk, nullStore) ==
    LET isPlayerListing ==
            Len(folder_items) > 0 /\ folder_items[1] = "BTRC_ITEM_PLAYER"
        playerItemArray == IF isPlayerListing THEN "allocated" ELSE "NULL"
        folderItemArray == IF isPlayerListing THEN "NULL" ELSE "allocated"
        r == folder_items_loop(folder_items, 0, isPlayerListing, playerItemArray,
                               folderItemArray, objOk,
                               [isPlayerListing |-> isPlayerListing, finished |-> FALSE,
                                stores |-> 0, nullStores |-> 0])
        given == IF r.isPlayerListing THEN playerItemArray ELSE folderItemArray
        c1 == [c EXCEPT !.args = folder_items]
    IN  IF c.upcalls = 0 THEN c1
        ELSE IF ~arrayOk THEN [c1 EXCEPT !.allocs = 1, !.upcalls = 0]
        ELSE IF r.nullStores > 0 /\ nullStore = "crash"
             THEN [c1 EXCEPT !.allocs = 1, !.upcalls = 0, !.outcome = "crashed"]
        ELSE [c1 EXCEPT !.allocs = 1,
                        !.upcalls = IF r.finished THEN 1 ELSE 0,
                        !.sent = [allocated |-> IF isPlayerListing THEN "playerItemArray"
                                                ELSE "folderItemArray",
                                  method |-> IF ~r.finished THEN "none"
                                             ELSE IF r.isPlayerListing
                                                  THEN "handleGetPlayerItemsRsp"
                                                  ELSE "handleGetFolderItemsRsp",
                                  array |-> IF ~r.finished THEN "none"
                                            ELSE IF given = "NULL" THEN "NULL"
                                            ELSE IF r.isPlayerListing
                                                 THEN "playerItemArray"
                                                 ELSE "folderItemArray",
                                  stores |-> r.stores, nullStores |-> r.nullStores]]

\* checkCallbackThread(), then the translation of the items.
btavrcp_get_folder_items_callback ==
    /\ Exercising("avrcp")
    /\ avrcp.sBluetoothAvrcpInterface
    /\ \E callbackEnv \in {1, 2}, threadEnv \in {1}, folder_items \in ItemLists,
          env \in {<<TRUE, TRUE, "ignored">>, <<TRUE, TRUE, "crash">>,
                   <<FALSE, TRUE, "ignored">>, <<TRUE, FALSE, "ignored">>} :
         LET arrayOk == env[1]
             objOk == env[2]
             nullStore == env[3]
         IN
          /\ last' = get_folder_items(
                         CheckedCallback("btavrcp_get_folder_items_callback",
                                         "avrcp", callbackEnv, threadEnv,
                                         checkCallbackThread(callbackEnv, threadEnv),
                                         FALSE, TRUE),
                         folder_items, arrayOk, objOk, nullStore)
          /\ avrcp' = [avrcp EXCEPT !.sCallbackEnv = callbackEnv]
    /\ UNCHANGED <<sGattIf, a2dp, gatt, globalRefs, stack, threads, uuidVars, addrVars, scopedVars>>

InitBridge ==
    /\ sGattIf = FALSE
    /\ BridgeOff
    /\ UuidOff
    /\ AddrOff
    /\ ScopedOff

NextBridge ==
    \/ A2dpInitNative
    \/ A2dpCleanupNative
    \/ AvrcpInitNative
    \/ AvrcpCleanupNative
    \/ GattInitializeNative
    \/ GattCleanupNative
    \/ bta2dp_connection_state_callback
    \/ bta2dp_audio_config_callback
    \/ btavrcp_passthrough_response_callback
    \/ btavrcp_groupnavigation_response_callback
    \/ btavrcp_play_position_changed_callback
    \/ btavrcp_play_status_changed_callback
    \/ btgattc_search_complete_cb
    \/ btgatts_request_write_characteristic_cb
    \/ gattClientWriteCharacteristicNative
    \/ gattClientWriteDescriptorNative
    \/ connectA2dpNative
    \/ sendPassThroughCommandNative
    \/ changeFolderPathNative

SpecBridge == InitBridge /\ [][NextBridge]_vars

(***************************************************************************)
(* The entry points and callbacks that marshal structured data, on a       *)
(* bridge that initNative has just initialised.                            *)
(***************************************************************************)

\* Everything initNative asks of the environment succeeds.
AllOk == [loaded |-> TRUE, refOk |-> TRUE, classOk |-> TRUE, ifOk |-> TRUE,
          initOk |-> TRUE]

InitMarshal ==
    /\ \/ LET r == avrcp_initNative(NoAvrcp, NoRefs, AllOk)
          IN  /\ avrcp = r.s
              /\ globalRefs = r.refs
              /\ stack = [NoStack EXCEPT !["avrcp"] = StackAfter(@, r.calls)]
              /\ gatt = NoGatt
              /\ sGattIf = FALSE
       \/ LET r == gatt_initializeNative(
                       [sGattIf |-> FALSE, btIf |-> FALSE, mCallbacksObj |-> 0,
                        sCallbackEnv |-> 0], NoRefs, AllOk)
          IN  /\ gatt = [btIf |-> r.s.btIf, mCallbacksObj |-> r.s.mCallbacksObj,
                         sCallbackEnv |-> r.s.sCallbackEnv]
              /\ sGattIf = r.s.sGattIf
              /\ globalRefs = r.refs
              /\ stack = [NoStack EXCEPT !["gatt"] = StackAfter(@, r.calls)]
              /\ avrcp = NoAvrcp
    /\ a2dp = NoA2dp
    /\ last = NoCall
    /\ threads = NoThreads
    /\ UuidOff
    /\ AddrOff
    /\ ScopedOff

NextMarshal ==
    \/ btavrcp_playerapplicationsetting_callback
    \/ btavrcp_get_folder_items_callback
    \/ gattClientScanFilterAddNative

SpecMarshal == InitMarshal /\ [][NextMarshal]_vars

(***************************************************************************)
(* initNative and cleanupNative on the service thread, statement by        *)
(* statement, with the callbacks the stack delivers on its own thread in   *)
(* between.  No lock is taken on either side.                              *)
(***************************************************************************)

\* The interface pointer of a bridge: sBluetoothA2dpInterface,
\* sBluetoothAvrcpInterface, sGattIf.
InterfaceOf(bridge) ==
    CASE bridge = "a2dp" -> a2dp.sBluetoothA2dpInterface
      [] bridge = "avrcp" -> avrcp.sBluetoothAvrcpInterface
      [] bridge = "gatt" -> sGattIf
      [] OTHER -> FALSE

\* The callbacks reference of a bridge: mCallbacksObj, sCallbacksObj.
CallbacksOf(bridge) ==
    CASE bridge = "a2dp" -> a2dp.mCallbacksObj
      [] bridge = "avrcp" -> avrcp.sCallbacksObj
      [] bridge = "gatt" -> gatt.mCallbacksObj
      [] OTHER -> 0

\* The statics of bridge b become interface, callbacks and (GATT) btIf_.
SetStatics(b, interface, callbacks, btIf_) ==
    /\ a2dp' = IF b = "a2dp"
               THEN [sBluetoothA2dpInterface |-> interface, mCallbacksObj |-> callbacks]
               ELSE a2dp
    /\ avrcp' = IF b = "avrcp"
                THEN [avrcp EXCEPT !.sBluetoothAvrcpInterface = interface,
                                   !.sCallbacksObj = callbacks]
                ELSE avrcp
    /\ gatt' = IF b = "gatt"
               THEN [gatt EXCEPT !.mCallbacksObj = callbacks, !.btIf = btIf_]
               ELSE gatt
    /\ sGattIf' = IF b = "gatt" THEN interface ELSE sGattIf

\* The service thread is at pc in a method of bridge b; a run stays with
\* the bridge of its first call.
ServiceAt(b, pc) ==
    /\ threads.svc.pc = pc
    /\ threads.svc.bridge = IF pc = "idle" THEN threads.svc.bridge ELSE b
    /\ threads.svc.bridge \in {"none", b}

ServiceTo(b, pc) == threads' = [threads EXCEPT !.svc = [pc |-> pc, bridge |-> b]]

\* A2DP takes the callbacks reference before the interface, AVRCP and GATT
\* after init().
RefFirst(b) == b = "a2dp"

\* initNative up to the cleanup of an old interface; the GATT one returns
\* at once when btIf is set.  (The module is loaded.)
InitCleanupOld ==
    \E b \in Bridges :
        /\ ServiceAt(b, "idle")
        /\ globalRefs.made + 1 <= MaxGlobalRefs
        /\ b = "gatt" => ~gatt.btIf
        /\ stack' = [stack EXCEPT ![b] = StackAfter(@, OldCleanup(InterfaceOf(b)))]
        /\ SetStatics(b, FALSE, CallbacksOf(b), TRUE)
        /\ ServiceTo(b, "init_delete")
        /\ UNCHANGED <<globalRefs, last, uuidVars, addrVars, scopedVars>>

\* if (mCallbacksObj != NULL) { DeleteGlobalRef; mCallbacksObj = NULL; }
InitDeleteRef ==
    \E b \in Bridges :
        /\ ServiceAt(b, "init_delete")
        /\ globalRefs' = DeleteGlobalRef(globalRefs, CallbacksOf(b))
        /\ SetStatics(b, FALSE, 0, TRUE)
        /\ ServiceTo(b, IF RefFirst(b) THEN "init_ref" ELSE "init_interface")
        /\ UNCHANGED <<last, stack, uuidVars, addrVars, scopedVars>>

\* mCallbacksObj = NewGlobalRef(object): A2DP returns when it is NULL and
\* goes on to the interface otherwise; for AVRCP and GATT it is the last
\* statement.
InitNewRef ==
    \E b \in Bridges, ok \in BOOLEAN :
        LET n == NewGlobalRef(globalRefs, ok)
        IN  /\ ServiceAt(b, "init_ref")
            /\ globalRefs' = n.refs
            /\ SetStatics(b, InterfaceOf(b), n.ref, TRUE)
            /\ ServiceTo(b, IF RefFirst(b) /\ n.ref # 0 THEN "init_interface"
                            ELSE "idle")
            /\ UNCHANGED <<last, stack, uuidVars, addrVars, scopedVars>>

\* get_profile_interface and init(&callbacks): from the moment init() has
\* succeeded the stack may deliver callbacks.
InitInterface ==
    \E b \in Bridges, ifOk \in BOOLEAN, initOk \in BOOLEAN :
        /\ ServiceAt(b, "init_interface")
        /\ stack' = [stack EXCEPT
                        ![b] = StackAfter(@, IF ifOk THEN InitCall(initOk) ELSE <<>>)]
        /\ SetStatics(b, ifOk /\ initOk, CallbacksOf(b), TRUE)
        /\ ServiceTo(b, IF ifOk /\ initOk /\ ~RefFirst(b) THEN "init_ref" ELSE "idle")
        /\ UNCHANGED <<globalRefs, last, uuidVars, addrVars, scopedVars>>

\* cleanupNative up to the cleanup of the interface; the GATT one returns
\* at once without btIf.
CleanupInterface ==
    \E b \in Bridges :
        /\ ServiceAt(b, "idle")
        /\ threads.svc.bridge = b
        /\ b = "gatt" => gatt.btIf
        /\ stack' = [stack EXCEPT ![b] = StackAfter(@, OldCleanup(InterfaceOf(b)))]
        /\ SetStatics(b, FALSE, CallbacksOf(b), TRUE)
        /\ ServiceTo(b, "cleanup_delete")
        /\ UNCHANGED <<globalRefs, last, uuidVars, addrVars, scopedVars>>

\* if (mCallbacksObj != NULL) { DeleteGlobalRef; mCallbacksObj = NULL; }
\* and, for GATT, btIf = NULL.
CleanupDeleteRef ==
    \E b \in Bridges :
        /\ ServiceAt(b, "cleanup_delete")
        /\ globalRefs' = DeleteGlobalRef(globalRefs, CallbacksOf(b))
        /\ SetStatics(b, FALSE, 0, FALSE)
        /\ ServiceTo(b, "idle")
        /\ UNCHANGED <<last, stack, uuidVars, addrVars, scopedVars>>

\* A callback of an initialised interface has passed its thread check and
\* enters CallVoidMethod(mCallbacksObj, ...) with the reference it reads.
CallbackUpcall ==
    \E b \in Bridges :
        /\ threads.cbk.pc = "idle"
        /\ threads.svc.bridge = b
        /\ stack[b].inited
        /\ threads' = [threads EXCEPT
                          !.cbk = [pc |-> "upcall", bridge |-> b, ref |-> CallbacksOf(b)]]
        /\ UNCHANGED <<sGattIf, a2dp, avrcp, gatt, globalRefs, last, stack,
                       uuidVars, addrVars, scopedVars>>

\* The upcall returns.
CallbackReturn ==
    /\ threads.cbk.pc = "upcall"
    /\ threads' = [threads EXCEPT !.cbk = [pc |-> "idle", bridge |-> "none", ref |-> 0]]
    /\ UNCHANGED <<sGattIf, a2dp, avrcp, gatt, globalRefs, last, stack,
                   uuidVars, addrVars, scopedVars>>

InitRace ==
    /\ sGattIf = FALSE
    /\ BridgeOff
    /\ UuidOff
    /\ AddrOff
    /\ ScopedOff

NextRace ==
    \/ InitCleanupOld
    \/ InitDeleteRef
    \/ InitNewRef
    \/ InitInterface
    \/ CleanupInterface
    \/ CleanupDeleteRef
    \/ CallbackUpcall
    \/ CallbackReturn

SpecRace == InitRace /\ [][NextRace]_vars

(***************************************************************************)
(* Claims about the profile bridges.                                       *)
(***************************************************************************)

\* The stack callbacks of the three bridges.
StackCallbacks ==
    {"bta2dp_connection_state_callback", "bta2dp_audio_config_callback",
     "btavrcp_passthrough_response_callback",
     "btavrcp_groupnavigation_response_callback",
     "btavrcp_play_position_changed_callback",
     "btavrcp_play_status_changed_callback",
     "btgattc_search_complete_cb", "btgatts_request_write_characteristic_cb"}

\* The environment getCallbackEnv() offers is non-NULL and is the one of the
\* thread the callback runs on.
EnvMatches == last.callbackEnv # 0 /\ last.callbackEnv = last.threadEnv

\* C16: a stack callback of the A2DP, AVRCP-controller and GATT bridges makes
\* an upcall only if it obtained the callback environment afresh and found it
\* non-NULL and equal to the environment of its thread; when the two do not
\* match it returns with no upcall and no array allocated.
C16_UpcallOnlyOnOwnThread ==
    last.fn \in StackCallbacks =>
        /\ last.upcalls > 0 => (last.checked /\ EnvMatches)
        /\ ~EnvMatches => (last.upcalls = 0 /\ last.allocs = 0)

\* C17: when cleanupNative has returned with the Bluetooth module loaded, the
\* interface pointer and the callbacks reference of its bridge are both NULL,
\* whatever calls of initNative and cleanupNative came before.
C17_CleanupNullsBoth ==
    (last.fn = "cleanupNative" /\ last.loaded) =>
        /\ last.bridge = "a2dp" =>
              (~a2dp.sBluetoothA2dpInterface /\ a2dp.mCallbacksObj = 0)
        /\ last.bridge = "avrcp" =>
              (~avrcp.sBluetoothAvrcpInterface /\ avrcp.sCallbacksObj = 0)
        /\ last.bridge = "gatt" => (~sGattIf /\ gatt.mCallbacksObj = 0)

\* C17 witness: cleanupNative of the A2DP bridge has run, with the module
\* loaded, after an initNative that failed past NewGlobalRef (callbacks
\* object set, no interface) and an earlier initNative; nothing is left.
C17_Witness ==
    /\ last.fn = "cleanupNative" /\ last.bridge = "a2dp" /\ last.loaded
    /\ ~last.pre.interface /\ last.pre.callbacks = 2
    /\ a2dp = NoA2dp
    /\ globalRefs.live = {}

\* C18: the vector gattClientWriteCharacteristicNative and
\* gattClientWriteDescriptorNative forward to the stack has the length and
\* the bytes of the byte array they were given, whatever its length.
C18_PayloadUnchanged ==
    last.outcome = "forwarded" => last.vect = last.value.runs

\* The command entry points of the three bridges.
CommandEntryPoints ==
    {"connectA2dpNative", "sendPassThroughCommandNative", "changeFolderPathNative",
     "gattClientWriteCharacteristicNative", "gattClientWriteDescriptorNative"}

\* C21: while the interface pointer of a profile is NULL (never initialised,
\* initialisation failed, or after cleanupNative), a command entry point of
\* that profile returns false or nothing, invokes no function of the native
\* stack and acquires no array elements.
C21_NullInterfaceDoesNothing ==
    (last.fn \in CommandEntryPoints /\ ~InterfaceOf(last.bridge)) =>
        /\ last.stackCalls = 0
        /\ last.acquired = 0
        /\ last.ret \in {"void", "JNI_FALSE"}
        /\ last.outcome = "returned"

\* C21 witness: connectA2dpNative was called after initNative had made a
\* callbacks reference and the interface was NULL again; it returned
\* JNI_FALSE with nothing acquired and the stack not called.
C21_Witness ==
    /\ last.fn = "connectA2dpNative"
    /\ ~a2dp.sBluetoothA2dpInterface
    /\ globalRefs.made > 0
    /\ last.ret = "JNI_FALSE" /\ last.acquired = 0 /\ last.stackCalls = 0

\* C28: when a command entry point has returned, every array or string it
\* acquired with GetByteArrayElements or GetStringUTFChars has been released,
\* once: as many releases as acquisitions, on the error paths too.
C28_AcquiredIsReleased ==
    last.fn \in CommandEntryPoints => last.freed = last.acquired

\* A 64-bit value is not zero: one of its limbs is not.
NonZero(w) == \E i \in 1..4 : w[i] # 0

\* gattClientScanFilterAddNative was called for a UUID filter with GATT
\* initialised.
UuidFilterCall ==
    /\ last.fn = "gattClientScanFilterAddNative"
    /\ sGattIf
    /\ last.args.filt_type \in {2, 3}

\* C30: gattClientScanFilterAddRemoveNative with filter type 2 or 3 hands
\* the stack the UUID mask exactly when both 64-bit halves of the mask are
\* non-zero, and a NULL mask when either half is zero; the UUID is handed on
\* in both cases.
C30_MaskWhenBothHalvesNonZero ==
    UuidFilterCall =>
        /\ last.stackCalls = 1
        /\ last.sent.uuid # NullUuid
        /\ uuid_lsb(last.sent.uuid) = last.args.uuid.lsb
        /\ uuid_msb(last.sent.uuid) = last.args.uuid.msb
        /\ (last.sent.mask # NullUuid)
             <=> (NonZero(last.args.mask.lsb) /\ NonZero(last.args.mask.msb))
        /\ last.sent.mask # NullUuid =>
               /\ uuid_lsb(last.sent.mask) = last.args.mask.lsb
               /\ uuid_msb(last.sent.mask) = last.args.mask.msb

\* C30 witness: a UUID filter whose mask has a zero lsb half and a non-zero
\* msb half was added; the stack received the UUID and a NULL mask.
C30_Witness ==
    /\ UuidFilterCall
    /\ last.args.mask.lsb = ZeroWord /\ NonZero(last.args.mask.msb)
    /\ last.sent.mask = NullUuid
    /\ last.sent.uuid # NullUuid

\* The attributes one after the other, each as <attr_id, num_val, values>.
RECURSIVE Flattened(_)
Flattened(app_attrs) ==
    IF app_attrs = <<>> THEN <<>>
    ELSE <<Head(app_attrs).attr_id, Head(app_attrs).num_val>>
         \o Head(app_attrs).attr_val \o Flattened(Tail(app_attrs))

\* btavrcp_playerapplicationsetting_callback made its upcall.
SettingsDelivered ==
    last.fn = "btavrcp_playerapplicationsetting_callback" /\ last.upcalls = 1

\* C22: the buffer btavrcp_playerapplicationsetting_callback hands up has
\* the length sum(2 + num_val_i) and holds, for each attribute in order,
\* attr_id, num_val and the num_val values; no write falls outside the buffer;
\* after the loop every attribute has been written and the write index
\* equals the buffer length.
C22_FlattenedAttributes ==
    SettingsDelivered =>
        /\ last.sent.arraylen = Len(Flattened(last.args))
        /\ Len(last.sent.playerattribs) = last.sent.arraylen
        /\ last.sent.playerattribs = Flattened(last.args)
        /\ ~last.sent.over
        /\ last.sent.i = Len(last.args)
        /\ last.sent.k = last.sent.arraylen

\* C22 witness: two attributes were delivered, the first without values and
\* the second with two; the buffer has 2 + 4 bytes.
C22_Witness ==
    /\ SettingsDelivered
    /\ Len(last.args) = 2
    /\ last.args[1].num_val = 0 /\ last.args[2].num_val = 2
    /\ last.sent.playerattribs = <<1, 0, 3, 2, 8, 255>>

\* C23: a response upcall of btavrcp_get_folder_items_callback is
\* handleGetPlayerItemsRsp for a player listing and handleGetFolderItemsRsp
\* for a folder or media listing; its argument is the non-NULL array that was
\* allocated for that kind of listing at the start; and items are stored
\* into that array only.
C23_ListingsExclusive ==
    (last.fn = "btavrcp_get_folder_items_callback" /\ last.upcalls = 1) =>
        /\ last.sent.method \in {"handleGetPlayerItemsRsp", "handleGetFolderItemsRsp"}
        /\ (last.sent.method = "handleGetPlayerItemsRsp")
             <=> (last.sent.allocated = "playerItemArray")
        /\ last.sent.array = last.sent.allocated
        /\ last.sent.nullStores = 0

\* C26: when initNative / initializeNative has returned, its bridge is
\* either fully initialised (interface pointer and callbacks reference both
\* non-NULL) or fully uninitialised (both NULL and, for GATT, btIf NULL too,
\* so that a later initializeNative tries again).
C26_InitAllOrNothing ==
    last.fn \in {"initNative", "initializeNative"} =>
        \/ InterfaceOf(last.bridge) /\ CallbacksOf(last.bridge) # 0
        \/ /\ ~InterfaceOf(last.bridge)
           /\ CallbacksOf(last.bridge) = 0
           /\ last.bridge = "gatt" => ~gatt.btIf

\* C24: over every sequence of initNative and cleanupNative calls, the
\* native interface of each profile receives cleanup() only when a
\* successful init() has happened since its last cleanup(), and receives
\* init() only when no successful init() is still waiting for its cleanup().
C24_InitCleanupAlternate ==
    \A b \in Bridges : stack[b].misuse = "none"

\* C24 witness: initNative of the A2DP bridge was called on an initialised
\* bridge and succeeded again (cleanup(), then init()), after an earlier
\* initNative; the interface is initialised and was never misused.
C24_Witness ==
    /\ last.fn = "initNative" /\ last.bridge = "a2dp"
    /\ last.pre.interface
    /\ stack["a2dp"] = [inited |-> TRUE, misuse |-> "none"]
    /\ a2dp.sBluetoothA2dpInterface

\* C25: however callbacks on the callback thread interleave with
\* initNative and cleanupNative on the service thread, a callback making an
\* upcall does so on a callbacks reference that is not NULL and has not been
\* deleted.
C25_UpcallOnLiveReference ==
    threads.cbk.pc = "upcall" =>
        /\ threads.cbk.ref # 0
        /\ threads.cbk.ref \in globalRefs.live

(***************************************************************************)
(* Claims about the UUID arguments of the registration methods.            *)
(***************************************************************************)

\* A registration upcall has been made.
Registered ==
    uuidPc \in {"onClientRegistered", "onServerRegistered", "onAdvertiserRegistered"}

\* C27: for every (lsb, msb) passed to gattClientRegisterAppNative,
\* gattServerRegisterAppNative or registerAdvertiserNative, when the stack
\* echoes the UUID in the registration callback, the upcall
\* (onClientRegistered, onServerRegistered, onAdvertiserRegistered) receives
\* the same lsb in the lsb position and the same msb in the msb position: the
\* two jlong arguments come back in the positions they were passed in.
C27_UuidKeepsItsPositions ==
    Registered =>
        /\ Len(uuidJ.upcall) = 2
        /\ uuidJ.upcall[1] = uuidJ.native[1]
        /\ uuidJ.upcall[2] = uuidJ.native[2]

\* C27 witness: a server registration with two different halves, the msb
\* negative, has been answered with onServerRegistered.
C27_Witness ==
    /\ uuidPc = "onServerRegistered"
    /\ uuidJ.native[1] # uuidJ.native[2]
    /\ Negative(uuidJ.native[2])
    /\ uuidJ.upcall = uuidJ.native

(***************************************************************************)
(* Claims about the characters the address parser reads.                   *)
(***************************************************************************)

\* C29: given a NUL-terminated text of 17 characters, bd_addr_str_to_addr
\* reads only the characters at indices 0..17 (the 17 characters and the
\* terminator): reading str[0], str[1], ... in order, it reads at most 18
\* characters and never one past the terminator.
C29_ReadsWithinString ==
    (parseRan /\ Len(addrText) = 17) => nRead <= Len(addrText) + 1

====
